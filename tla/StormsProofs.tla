---------------------------- MODULE StormsProofs ----------------------------
(***************************************************************************)
(* The daemon's tick for any machine, thresholds and faults: the samples   *)
(* are regular, what a tick suggests is so, an alert is earned, and trends *)
(* say what the rows say.                                                  *)
(***************************************************************************)
EXTENDS Storms, TLAPS, FiniteSetTheorems, WellFoundedInduction

(* No time of the files is in the future.                                  *)
Settled(x, t) == x.refs <= t /\ \A b \in Branch : x.tips[b].at <= t
Commits == at <= now /\ \A r \in Repo : Settled(repo[r], now)

(* Rows carry the time of a step that is over, or of the step the tick is  *)
(* in, and then the loop has left their cache behind.                      *)
Rows ==
    /\ \A s \in cacheRows \cup diskRows : s.at <= at
    /\ pc = "repos" => \A s \in cacheRows : s.at < at
    /\ pc = "caches" => /\ IsInjective(todo)
                        /\ \A s \in cacheRows : s.of \in ToSet(todo) => s.at < at

(* A tick that has read every volume it is past finds each with a sample.  *)
Sampled ==
    pc = "disks" /\ whole =>
        \A v \in Volumes : v \in ToSet(todo) \/ \E s \in diskRows : s.of = v /\ s.at >= at - Throttle

(* What a tick measured is the last row, what it walked is not older than  *)
(* its row.                                                                *)
Measured ==
    /\ \A c \in Cache : measured[c] # None =>
        \E r \in cacheRows : /\ r.of = c /\ r.bytes = measured[c]
                             /\ \A z \in cacheRows : z.of = c => z.at < r.at \/ z = r
    /\ \A r \in Repo : walked[r] # None /\ walked[r].tip # None => walked[r].tip <= idleRows[r].last

Findings == FindingsAreTrue /\ (pc # "leaks" => found = {})

(* The pairs of alerts that are too close, and one more when the last      *)
(* alert is in no ledger and will not be.                                  *)
Close(q) == {i \in 1..(Len(q) - 1) : q[i + 1] - q[i] < Cooldown}
Owes(s) ==
    told[s] # <<>> /\ ledger[s] # Last(told[s]) /\ ~(pc = "record" /\ Head(todo) = s)
Paid ==
    /\ \A s \in Sig : Cardinality(Close(told[s])) + (IF Owes(s) THEN 1 ELSE 0) <= faults
    /\ pc = "record" => told[Head(todo)] # <<>> /\ Last(told[Head(todo)]) = at
Alerts ==
    /\ \A k \in report : clone[k].st # "none"
    /\ MutedByTheTold /\ StormIsNewOrGone /\ Paid

(* No two rows of a cache or volume have one time.                         *)
Single(R) == \A a, b \in R : a.of = b.of /\ a.at = b.at => a = b
Unique    == Single(cacheRows) /\ Single(diskRows)

TickInv ==
    /\ TypeOK /\ Commits /\ Rows /\ SamplesAreSpaced /\ Sampled /\ Unique
    /\ Measured /\ Findings /\ Alerts

-----------------------------------------------------------------------------
(* Sequences. *)

LEMMA TailProps ==
    ASSUME NEW S, NEW q \in Seq(S), q # <<>>
    PROVE  /\ Head(q) \in S /\ Tail(q) \in Seq(S) /\ Len(Tail(q)) = Len(q) - 1
           /\ ToSet(q) = {Head(q)} \cup ToSet(Tail(q))
           /\ IsInjective(q) => IsInjective(Tail(q)) /\ Head(q) \notin ToSet(Tail(q))
<1>1. /\ Head(q) = q[1] /\ q[1] \in S /\ Tail(q) \in Seq(S) /\ Len(q) \in Nat \ {0}
      /\ DOMAIN q = 1..Len(q) /\ DOMAIN Tail(q) = 1..(Len(q) - 1) /\ Len(Tail(q)) = Len(q) - 1
      /\ \A i \in 1..(Len(q) - 1) : Tail(q)[i] = q[i + 1]
  OBVIOUS
<1>2. ToSet(q) \subseteq {Head(q)} \cup ToSet(Tail(q))
  <2>. SUFFICES ASSUME NEW i \in 1..Len(q), i # 1 PROVE q[i] \in ToSet(Tail(q))
    BY <1>1 DEF ToSet
  <2>1. i - 1 \in 1..(Len(q) - 1) /\ (i - 1) + 1 = i
    BY <1>1
  <2>. QED
    BY <1>1, <2>1 DEF ToSet
<1>3. {Head(q)} \cup ToSet(Tail(q)) \subseteq ToSet(q)
  BY <1>1 DEF ToSet
<1>4. ASSUME IsInjective(q) PROVE IsInjective(Tail(q)) /\ Head(q) \notin ToSet(Tail(q))
  <2>1. ASSUME NEW i \in 1..(Len(q) - 1), NEW j \in 1..(Len(q) - 1), Tail(q)[i] = Tail(q)[j]
        PROVE  i = j
    <3>1. i + 1 \in DOMAIN q /\ j + 1 \in DOMAIN q /\ q[i + 1] = q[j + 1]
      BY <1>1, <2>1
    <3>2. i + 1 = j + 1
      BY <1>4, <3>1 DEF IsInjective
    <3>. QED
      BY <3>2
  <2>2. ASSUME NEW i \in 1..(Len(q) - 1), Tail(q)[i] = q[1] PROVE FALSE
    <3>1. i + 1 \in DOMAIN q /\ 1 \in DOMAIN q /\ q[i + 1] = q[1]
      BY <1>1, <2>2
    <3>. QED
      BY <1>4, <3>1 DEF IsInjective
  <2>. QED
    BY <1>1, <2>1, <2>2 DEF IsInjective, ToSet
<1>. QED
  BY <1>1, <1>2, <1>3, <1>4

LEMMA EmptySeqOf ==
    ASSUME NEW S, NEW q \in Seq(S), NEW n \in Nat, n = 1, Len(q) = n - 1
    PROVE  q \in Seq({})
<1>1. Len(q) = 0
  OBVIOUS
<1>2. q \in [1..0 -> S]
  BY <1>1
<1>3. q \in [1..0 -> {}]
  BY <1>2
<1>. QED
  BY <1>3

LEMMA SeqOfMore ==
    ASSUME NEW S, NEW T, S \subseteq T, NEW q \in Seq(S)
    PROVE  q \in Seq(T)
OBVIOUS

(* What a loop runs over: everything, once. *)
LEMMA SetToSeqProps ==
    ASSUME NEW S, IsFiniteSet(S)
    PROVE  /\ SetToSeq(S) \in Seq(S) /\ ToSet(SetToSeq(S)) = S /\ IsInjective(SetToSeq(S))
           /\ S # {} => SetToSeq(S) # <<>>
<1>. DEFINE n == Cardinality(S)
            q == SetToSeq(S)
<1>1. n \in Nat /\ ExistsBijection(1..n, S)
  BY FS_CardinalityType
<1>. HIDE DEF n
<1>2. \E f \in [1..n -> S] : IsInjective(f)
  BY <1>1 DEF ExistsBijection, Bijection, Injection
<1>3. q \in [1..n -> S] /\ IsInjective(q)
  BY <1>2 DEF SetToSeq, n
<1>4. q \in Injection(1..n, S)
  BY <1>3 DEF Injection
<1>. HIDE DEF q
<1>5. Cardinality(1..n) = n /\ IsFiniteSet(1..n)
  BY <1>1, FS_Interval
<1>6. q \in Surjection(1..n, S)
  BY <1>4, <1>5, FS_Injection DEF n
<1>7. q \in Seq(S) /\ ToSet(q) = S
  BY <1>1, <1>3, <1>6 DEF Surjection, ToSet
<1>8. S # {} => q # <<>>
  BY <1>7 DEF ToSet
<1>. QED
  BY <1>3, <1>7, <1>8 DEF q

-----------------------------------------------------------------------------
(* Types. *)

RepoType == [head : Branch, refs : Times, nm : {0, MinNm}, nmAt : Times,
             tips : [Branch -> [at : Times, loose : BOOLEAN]], there : BOOLEAN]
WalkType == [commit : Times, tip : Times \cup {None}]
PlaceOK ==
    /\ now \in Times /\ at \in Times /\ scene \in Scenes
    /\ pc \in {"down", "idle", "repos", "caches", "disks", "heur", "leaks", "clean", "storm",
               "alert", "record"}
    /\ trig \in {"daily", "pressure", "manual"} /\ notify \in BOOLEAN /\ whole \in BOOLEAN
    /\ user \in 0..MaxUser /\ faults \in 0..MaxFaults
LoopOK == todo \in Seq(Loop) /\ (pc \in {"alert", "record"} => todo # <<>>)
FilesOK ==
    repo \in [Repo -> RepoType] /\ size \in [Cache -> Sizes \cup {None}] /\ used \in [Volume -> Sizes]
TableOK ==
    /\ idleRows \in [Repo -> {None} \cup [last : Times, nm : {0, MinNm}]]
    /\ cacheRows \subseteq [of : Cache, bytes : Sizes, at : Times]
    /\ diskRows \subseteq [of : Volume, bytes : Sizes, at : Times]
SeenOK ==
    /\ found \subseteq Repo \cup Cache
    /\ walked \in [Repo -> WalkType \cup {None}] /\ measured \in [Cache -> Sizes \cup {None}]
CloneOK == clone \in [Clone -> [st : States, born : Times]]
LeakOK ==
    /\ report \subseteq Clone
    /\ firstSeen \in [Clone -> Times \cup {None}] /\ ledger \in [Sig -> Times \cup {None}]
    /\ filed \in [Clone -> Times \cup {None}]
    /\ told \in [Sig -> Seq(Times)]

LEMMA TypeParts ==
    TypeOK <=> PlaceOK /\ LoopOK /\ FilesOK /\ TableOK /\ SeenOK /\ CloneOK /\ LeakOK
BY DEF TypeOK, PlaceOK, LoopOK, FilesOK, TableOK, SeenOK, CloneOK, LeakOK, RepoType, WalkType

LEMMA TypePartsNext ==
    TypeOK' <=> PlaceOK' /\ LoopOK' /\ FilesOK' /\ TableOK' /\ SeenOK' /\ CloneOK' /\ LeakOK'
BY DEF TypeOK, PlaceOK, LoopOK, FilesOK, TableOK, SeenOK, CloneOK, LeakOK, RepoType, WalkType

LEMMA Finite ==
    /\ IsFiniteSet(Repos) /\ IsFiniteSet(Caches) /\ IsFiniteSet(Volumes) /\ IsFiniteSet({})
    /\ \A t : LeakStorms(t) \subseteq Sig /\ IsFiniteSet(LeakStorms(t))
<1>1. /\ Repos \in SUBSET (Repo \cup Cache \cup Volume) /\ Caches \in SUBSET (Repo \cup Cache \cup Volume)
      /\ Volumes \in SUBSET (Repo \cup Cache \cup Volume)
  BY DEF Repos, Caches, Volumes
<1>2. \A t : LeakStorms(t) \in SUBSET Sig
  BY DEF LeakStorms
<1>. QED
  BY <1>1, <1>2, HistoryAssumption, StormsAssumption, FS_Subset, FS_EmptySet

(* A step that turns to a loop is at its start. *)
LEMMA GotoLoop ==
    ASSUME NEW l, NEW S, IsFiniteSet(S), Goto(l, S)
    PROVE  /\ pc' = l /\ at' = now /\ todo' \in Seq(S) /\ ToSet(todo') = S /\ IsInjective(todo')
           /\ S # {} => todo' # <<>>
BY SetToSeqProps DEF Goto

LEMMA TimesAreNat ==
    /\ Times \subseteq Nat /\ Sizes \subseteq Nat /\ 0 \in Times /\ 0 \in Sizes /\ Start \in Times
    /\ None \notin Times /\ None \notin Sizes
BY HistoryAssumption DEF Times, Sizes

(* What git and package managers make of a repository. *)
LEMMA RepoTypes ==
    ASSUME NEW x \in RepoType, now \in Times, NEW b \in Branch, NEW t \in {now, x.refs}
    PROVE  /\ [x EXCEPT !.tips[x.head] = [at |-> now, loose |-> TRUE], !.refs = t] \in RepoType
           /\ [x EXCEPT !.tips = [c \in Branch |-> [@[c] EXCEPT !.loose = FALSE]], !.refs = t] \in RepoType
           /\ [x EXCEPT !.head = b] \in RepoType
           /\ [x EXCEPT !.nm = MinNm, !.nmAt = now] \in RepoType
           /\ [x EXCEPT !.nm = 0] \in RepoType
           /\ [x EXCEPT !.there = FALSE] \in RepoType
BY DEF RepoType

LEMMA MachineTypes ==
    ASSUME PlaceOK, FilesOK, Machine
    PROVE  FilesOK' /\ now' \in Times /\ user' \in 0..MaxUser
<1>1. now' \in Times /\ user' \in 0..MaxUser
  <2>1. now < MaxTime => now + 1 \in Times
    BY HistoryAssumption DEF PlaceOK, Times
  <2>2. Happens => user' \in 0..MaxUser
    BY HistoryAssumption DEF PlaceOK, Happens
  <2>. QED
    BY <2>1, <2>2 DEF Machine, Pass, Resize, Fill, Commit, Gc, Checkout, Install, Uninstall, Delete,
                      Git, PlaceOK, worldVars
<1>2. ASSUME NEW r \in Repo, NEW f \in RepoType, Git(r, f) PROVE repo' \in [Repo -> RepoType]
  BY <1>2 DEF FilesOK, Git
<1>3. ASSUME NEW r \in Repo,
             Commit(r) \/ Gc(r) \/ (\E b \in Branch : Checkout(r, b)) \/ Install(r) \/ Uninstall(r)
               \/ Delete(r)
      PROVE  repo' \in [Repo -> RepoType]
  <2>1. repo[r] \in RepoType /\ repo[r].head \in Branch
    BY DEF FilesOK, RepoType
  <2>2. PICK b \in Branch : Checkout(r, b) \/ Commit(r) \/ Gc(r) \/ Install(r) \/ Uninstall(r) \/ Delete(r)
    BY <1>3, <2>1
  <2>. QED
    BY <1>2, <2>1, <2>2, RepoTypes DEF Commit, Gc, Checkout, Install, Uninstall, Delete, PlaceOK
<1>4. ASSUME NEW c \in Cache, NEW n \in Sizes \cup {None}, Resize(c, n)
      PROVE  size' \in [Cache -> Sizes \cup {None}]
  BY <1>4 DEF FilesOK, Resize
<1>5. ASSUME NEW v \in Volume, NEW n \in Sizes, Fill(v, n) PROVE used' \in [Volume -> Sizes]
  BY <1>5 DEF FilesOK, Fill
<1>. QED
  BY <1>1, <1>3, <1>4, <1>5 DEF Machine, FilesOK, worldVars

LEMMA OutsideTypes ==
    ASSUME TypeOK, Elsewhere \/ Programs
    PROVE  TypeOK'
<1>0. PlaceOK /\ LoopOK /\ FilesOK /\ TableOK /\ SeenOK /\ CloneOK /\ LeakOK
  BY TypeParts
<1>1. CASE Elsewhere
  <2>1. FilesOK' /\ now' \in Times /\ user' \in 0..MaxUser
    BY <1>0, <1>1, MachineTypes DEF Elsewhere
  <2>2. UNCHANGED <<scene, tableVars, pc, trig, at, todo, found, seenVars, faults, stormVars>>
    BY <1>1 DEF Elsewhere
  <2>. QED
    BY <1>0, <2>1, <2>2, TypePartsNext
       DEF PlaceOK, LoopOK, Loop, Repos, Caches, Volumes, TableOK, SeenOK, CloneOK, LeakOK,
           tableVars, seenVars, stormVars
<1>2. CASE Programs
  <2>1. clone' \in [Clone -> [st : States, born : Times]]
    BY <1>0, <1>2 DEF Programs, Relaunch, Exit, CloneOK, PlaceOK, States
  <2>2. user' \in 0..MaxUser
    BY <1>0, <1>2, HistoryAssumption DEF Programs, Happens, PlaceOK
  <2>3. UNCHANGED <<now, scene, repo, size, used, tableVars, pc, trig, at, todo, found, seenVars,
                    faults, report, firstSeen, ledger, filed, notify, told>>
    BY <1>2 DEF Programs
  <2>. QED
    BY <1>0, <2>1, <2>2, <2>3, TypePartsNext
       DEF PlaceOK, LoopOK, Loop, Repos, Caches, Volumes, TableOK, SeenOK, CloneOK, LeakOK, FilesOK,
           tableVars, seenVars
<1>. QED
  BY <1>1, <1>2

(* Bounded numbers have a least: of the sets of the numbers below each of  *)
(* them one is the smallest.                                               *)
LEMMA MinBounds ==
    ASSUME NEW n \in Nat, NEW S \in SUBSET (0..n), S # {}
    PROVE  Min(S) \in S /\ \A x \in S : Min(S) <= x
<1>. DEFINE Below(x) == {y \in 0..n : y < x}
            T == {Below(x) : x \in S}
<1>1. IsFiniteSet(0..n)
  BY FS_Interval
<1>2. \A x \in S : Below(x) \in SUBSET (0..n) /\ IsFiniteSet(Below(x))
  BY <1>1, FS_Subset
<1>3. T \subseteq FiniteSubsetsOf(0..n) /\ T # {}
  BY <1>2 DEF FiniteSubsetsOf
<1>4. PICK u \in T : \A v \in T : <<v, u>> \notin StrictSubsetOrdering(0..n)
  <2>. HIDE DEF T
  <2>. QED
    BY <1>3, FS_StrictSubsetOrderingWellFounded, WFMin
<1>5. PICK m \in S : u = Below(m)
  OBVIOUS
<1>6. ASSUME NEW x \in S, x < m PROVE FALSE
  <2>1. Below(x) \subseteq Below(m) /\ x \in Below(m) /\ x \notin Below(x)
    BY <1>6
  <2>2. <<Below(x), Below(m)>> \in StrictSubsetOrdering(0..n)
    BY <1>2, <2>1 DEF StrictSubsetOrdering
  <2>. QED
    BY <1>4, <1>5, <2>2
<1>7. \A x \in S : m <= x
  BY <1>6
<1>. QED
  BY <1>7 DEF Min

LEMMA MaxBounds ==
    ASSUME NEW n \in Nat, NEW S \in SUBSET (0..n), S # {}
    PROVE  Max(S) \in S /\ \A x \in S : x <= Max(S)
<1>. DEFINE T == {n - x : x \in S}
<1>1. T \in SUBSET (0..n) /\ T # {}
  <2>1. \A x \in S : n - x \in 0..n
    OBVIOUS
  <2>2. PICK x \in S : TRUE
    OBVIOUS
  <2>. QED
    BY <2>1, <2>2
<1>2. Min(T) \in T /\ \A y \in T : Min(T) <= y
  <2>. HIDE DEF T
  <2>. QED
    BY <1>1, MinBounds
<1>3. PICK m \in S : Min(T) = n - m
  BY <1>2
<1>4. \A x \in S : m >= x
  <2>. SUFFICES ASSUME NEW x \in S PROVE m >= x
    OBVIOUS
  <2>1. n - m <= n - x
    BY <1>2, <1>3
  <2>. QED
    BY <2>1
<1>. QED
  BY <1>4 DEF Max

LEMMA MaxOfTwo ==
    ASSUME NEW a \in Nat, NEW b \in Nat
    PROVE  /\ Max({a} \cup {b}) \in {a, b} /\ Max({a} \cup {b}) >= a /\ Max({a} \cup {b}) >= b
           /\ Max({a} \cup {}) = a
<1>1. \E x \in {a} \cup {b} : \A y \in {a} \cup {b} : x >= y
  <2>1. CASE a >= b
    BY <2>1
  <2>2. CASE b >= a
    BY <2>2
  <2>. QED
    BY <2>1, <2>2
<1>2. \E x \in {a} \cup {} : \A y \in {a} \cup {} : x >= y
  OBVIOUS
<1>. QED
  BY <1>1, <1>2 DEF Max

LEMMA HeadTimes ==
    ASSUME TypeOK, NEW r \in Repo
    PROVE  /\ HeadTime(r) \in Times /\ LastActive(r) \in Times /\ LastActive(r) >= HeadTime(r)
           /\ repo[r].nm \in {0, MinNm}
           /\ LastCommit(r) \in Times /\ LooseTip(r) \in Times \cup {None}
<1>1. repo[r] \in RepoType
  BY TypeParts DEF FilesOK
<1>2. /\ HeadTime(r) \in Times /\ repo[r].nmAt \in Times
      /\ repo[r].tips[repo[r].head].at \in Times /\ repo[r].nm \in {0, MinNm}
  BY <1>1 DEF HeadTime, RepoType
<1>3. LastActive(r) \in Times /\ LastActive(r) >= HeadTime(r)
  <2>. DEFINE h == HeadTime(r)
              n == repo[r].nmAt
  <2>1. h \in Nat /\ n \in Nat
    BY <1>2, TimesAreNat
  <2>. HIDE DEF h, n
  <2>2. Max({h} \cup {n}) \in {h, n} /\ Max({h} \cup {n}) >= h /\ Max({h} \cup {}) = h /\ h >= h
    BY <2>1, MaxOfTwo
  <2>3. LastActive(r) = Max({h} \cup {n}) \/ LastActive(r) = Max({h} \cup {})
    BY DEF LastActive, h, n
  <2>. QED
    BY <1>2, <2>2, <2>3 DEF h, n
<1>4. LastCommit(r) \in Times
  <2>. DEFINE S == {repo[r].tips[b].at : b \in Branch}
  <2>1. S \in SUBSET (0..MaxTime) /\ S # {} /\ MaxTime \in Nat
    BY <1>1, HistoryAssumption DEF RepoType, Times
  <2>2. LastCommit(r) = Max(S)
    BY DEF LastCommit
  <2>. HIDE DEF S
  <2>3. Max(S) \in S
    BY <2>1, MaxBounds
  <2>. QED
    BY <2>1, <2>2, <2>3 DEF Times
<1>5. LooseTip(r) \in Times \cup {None}
  BY <1>2 DEF LooseTip
<1>. QED
  BY <1>2, <1>3, <1>4, <1>5

LEMMA FaultTypes ==
    ASSUME faults \in 0..MaxFaults
    PROVE  faults \in Nat /\ (Fault => faults' \in 0..MaxFaults /\ faults' = faults + 1)
<1>1. MaxFaults \in Nat
  BY HistoryAssumption
<1>. QED
  BY <1>1 DEF Fault

(* The fields of a step of the scan. *)
LEMMA ScanTypes ==
    ASSUME TypeOK, ScanStep
    PROVE  TypeOK'
<1>0. PlaceOK /\ LoopOK /\ FilesOK /\ TableOK /\ SeenOK /\ CloneOK /\ LeakOK
  BY TypeParts
<1>1. UNCHANGED <<now, scene, worldVars, trig, stormVars>>
  BY DEF ScanStep
<1>2. FilesOK' /\ CloneOK' /\ LeakOK'
  BY <1>0, <1>1 DEF worldVars, stormVars, FilesOK, CloneOK, LeakOK
<1>3. ASSUME Fine \/ Fail PROVE whole' \in BOOLEAN /\ faults' \in 0..MaxFaults
  <2>1. CASE Fine
    BY <1>0, <2>1 DEF Fine, PlaceOK
  <2>2. CASE Fail
    BY <1>0, <2>2, FaultTypes DEF Fail, PlaceOK
  <2>. QED
    BY <1>3, <2>1, <2>2
<1>4. ASSUME Stay, todo # <<>>, pc \in {"repos", "caches", "disks"}, Fine \/ Fail PROVE PlaceOK' /\ LoopOK'
  <2>1. pc' = pc /\ at' = at /\ todo' = Tail(todo) /\ Loop' = Loop
    BY <1>1, <1>4 DEF Stay, Loop, Repos, Caches, Volumes
  <2>2. Tail(todo) \in Seq(Loop)
    BY <1>0, <1>4, TailProps DEF LoopOK
  <2>. QED
    BY <1>0, <1>1, <1>3, <1>4, <2>1, <2>2 DEF PlaceOK, LoopOK, worldVars, stormVars
<1>5. ASSUME NEW l, NEW S, IsFiniteSet(S), Goto(l, S), Fine \/ Fail,
             \/ l \in {"heur", "leaks"} /\ S = {}
             \/ l = "caches" /\ S = Caches
             \/ l = "disks" /\ S \in {Volumes, {}}
      PROVE  PlaceOK' /\ LoopOK'
  <2>1. pc' = l /\ at' = now /\ todo' \in Seq(S) /\ S \subseteq Loop'
    BY <1>1, <1>5, GotoLoop DEF Loop, Caches, Volumes
  <2>2. todo' \in Seq(Loop')
    BY <2>1
  <2>. QED
    BY <1>0, <1>1, <1>3, <1>5, <2>1, <2>2 DEF PlaceOK, LoopOK, worldVars, stormVars
<1>6. CASE ScanRepo
  <2>1. Head(todo) \in Repo /\ pc = "repos" /\ todo # <<>> /\ Stay /\ (Fine \/ Fail)
    BY <1>0, <1>6, TailProps DEF ScanRepo, LoopOK, Loop, Repos
  <2>2. TableOK' /\ SeenOK'
    <3>. DEFINE h == Head(todo)
    <3>1. [commit |-> LastCommit(h), tip |-> LooseTip(h)] \in WalkType
      BY <2>1, HeadTimes DEF WalkType
    <3>2. [last |-> LastActive(h), nm |-> repo[h].nm] \in [last : Times, nm : {0, MinNm}]
      BY <2>1, HeadTimes
    <3>. QED
      BY <1>0, <1>6, <2>1, <3>1, <3>2 DEF ScanRepo, TableOK, SeenOK
  <2>. QED
    BY <1>2, <1>4, <2>1, <2>2, TypePartsNext
<1>7. CASE ScanCache
  <2>1. Head(todo) \in Cache /\ pc = "caches" /\ todo # <<>> /\ (Fine \/ Fail) /\ (Stay \/ Goto("heur", {}))
    BY <1>0, <1>7, TailProps DEF ScanCache, LoopOK, Loop, Caches
  <2>2. TableOK' /\ SeenOK'
    <3>1. ASSUME Sizeable(Head(todo))
          PROVE  /\ size[Head(todo)] \in Sizes
                 /\ [of |-> Head(todo), bytes |-> size[Head(todo)], at |-> at]
                        \in [of : Cache, bytes : Sizes, at : Times]
      BY <1>0, <2>1, <3>1 DEF Sizeable, FilesOK, PlaceOK
    <3>. QED
      BY <1>0, <1>7, <2>1, <3>1 DEF ScanCache, TableOK, SeenOK
  <2>3. PlaceOK' /\ LoopOK'
    BY <1>4, <1>5, <2>1, FS_EmptySet
  <2>. QED
    BY <1>2, <2>2, <2>3, TypePartsNext
<1>8. CASE ScanDisk
  <2>1. Head(todo) \in Volume /\ pc = "disks" /\ todo # <<>> /\ (Fine \/ Fail) /\ (Stay \/ Goto("heur", {}))
    BY <1>0, <1>8, TailProps DEF ScanDisk, LoopOK, Loop, Volumes
  <2>2. TableOK' /\ SeenOK'
    <3>1. [of |-> Head(todo), bytes |-> used[Head(todo)], at |-> at]
                        \in [of : Volume, bytes : Sizes, at : Times]
      BY <1>0, <2>1 DEF FilesOK, PlaceOK
    <3>. QED
      BY <1>0, <1>8, <2>1, <3>1 DEF ScanDisk, TableOK, SeenOK
  <2>3. PlaceOK' /\ LoopOK'
    BY <1>4, <1>5, <2>1, FS_EmptySet
  <2>. QED
    BY <1>2, <2>2, <2>3, TypePartsNext
<1>9. CASE NextCollector
  <2>1. PlaceOK' /\ LoopOK'
    BY <1>5, <1>9, Finite DEF NextCollector
  <2>. QED
    BY <1>0, <1>2, <1>9, <2>1, TypePartsNext DEF NextCollector, tableVars, TableOK, SeenOK
<1>10. CASE Heuristics
  <2>1. PlaceOK' /\ LoopOK'
    BY <1>5, <1>10, Finite DEF Heuristics
  <2>2. found' \subseteq Repo \cup Cache
    BY <1>10 DEF Heuristics, IdleRepos, CacheVelocity
  <2>. QED
    BY <1>0, <1>2, <1>10, <2>1, <2>2, TypePartsNext DEF Heuristics, tableVars, TableOK, SeenOK
<1>. QED
  BY <1>6, <1>7, <1>8, <1>9, <1>10 DEF ScanStep, Scan

LEMMA RunTypes ==
    ASSUME TypeOK, \/ \E t \in {"daily", "pressure", "manual"} : RunTick(t)
                   \/ Kill \/ Restart
    PROVE  TypeOK'
<1>0. PlaceOK /\ LoopOK /\ FilesOK /\ TableOK /\ SeenOK /\ CloneOK /\ LeakOK
  BY TypeParts
<1>1. ASSUME NEW t \in {"daily", "pressure", "manual"}, RunTick(t) PROVE TypeOK'
  <2>1. UNCHANGED <<now, scene, worldVars, tableVars, faults, found, seenVars, stormVars>> /\ trig' = t
    BY <1>1 DEF RunTick
  <2>2. \/ pc' = "leaks" /\ todo' \in Seq({}) /\ at' = now
        \/ pc' = "repos" /\ todo' \in Seq(Repos) /\ at' = now
    BY <1>1, Finite, GotoLoop DEF RunTick
  <2>3. PlaceOK' /\ LoopOK'
    BY <1>0, <2>1, <2>2 DEF PlaceOK, LoopOK, Loop, Repos, worldVars, seenVars, stormVars
  <2>. QED
    BY <1>0, <2>1, <2>3, TypePartsNext
       DEF FilesOK, TableOK, SeenOK, CloneOK, LeakOK, worldVars, tableVars, seenVars, stormVars
<1>2. CASE Kill
  <2>1. UNCHANGED <<steady, at, clone, ledger, filed, told>> /\ Forget /\ pc' = "down" /\ todo' = <<>>
    BY <1>2 DEF Kill
  <2>2. faults' \in 0..MaxFaults
    BY <1>0, <1>2, FaultTypes DEF Kill, PlaceOK
  <2>3. PlaceOK' /\ LoopOK'
    BY <1>0, <2>1, <2>2 DEF PlaceOK, LoopOK, Loop, steady, worldVars, Forget
  <2>4. SeenOK'
    BY <2>1 DEF Forget, SeenOK
  <2>5. LeakOK'
    BY <1>0, <1>2, <2>1 DEF LeakOK, Kill
  <2>. QED
    BY <1>0, <2>1, <2>3, <2>4, <2>5, TypePartsNext
       DEF FilesOK, TableOK, CloneOK, steady, worldVars, tableVars
<1>3. CASE Restart
  <2>1. UNCHANGED <<now, scene, worldVars, tableVars, trig, at, todo, found, seenVars, faults,
                    clone, report, firstSeen, ledger, filed, told>>
        /\ pc = "down" /\ pc' = "idle" /\ notify' \in BOOLEAN
    BY <1>3 DEF Restart
  <2>2. PlaceOK' /\ LoopOK'
    BY <1>0, <2>1 DEF PlaceOK, LoopOK, Loop, worldVars, seenVars
  <2>. QED
    BY <1>0, <2>1, <2>2, TypePartsNext
       DEF FilesOK, TableOK, SeenOK, CloneOK, LeakOK, worldVars, tableVars, seenVars
<1>. QED
  BY <1>1, <1>2, <1>3

LEMMA AppearedTypes ==
    ASSUME CloneOK, LeakOK, NEW k \in Clone, NEW t \in Times
    PROVE  AppearedAt(k, t) \in Times
BY DEF CloneOK, LeakOK, AppearedAt

LEMMA OnwardTypes ==
    ASSUME PlaceOK, LoopOK, pc \in {"alert", "record"}, Onward, UNCHANGED steady, faults' \in 0..MaxFaults,
           UNCHANGED <<found, seenVars>>
    PROVE  PlaceOK' /\ LoopOK' /\ (report' = report \/ report' = {})
<1>1. todo \in Seq(Sig) /\ todo # <<>> /\ todo' = Tail(todo) /\ at' = at
  BY DEF LoopOK, Loop, Onward
<1>2. Tail(todo) \in Seq(Sig) /\ Len(Tail(todo)) = Len(todo) - 1 /\ Len(todo) \in Nat
  BY <1>1, TailProps
<1>3. Len(todo) = 1 => Tail(todo) \in Seq({})
  BY <1>2, EmptySeqOf
<1>3a. Len(todo) # 1 => Tail(todo) # <<>>
  BY <1>2
<1>4. CASE Len(todo) = 1
  BY <1>1, <1>3, <1>4 DEF Onward, PlaceOK, LoopOK, Loop, steady, worldVars, seenVars
<1>5. CASE Len(todo) # 1
  BY <1>1, <1>2, <1>3a, <1>5 DEF Onward, PlaceOK, LoopOK, Loop, steady, worldVars, seenVars
<1>. QED
  BY <1>4, <1>5

LEMMA LeakTypes ==
    ASSUME TypeOK, ScanLeaks \/ AutoClean \/ Detect \/ Alert \/ Record
    PROVE  TypeOK'
<1>0. PlaceOK /\ LoopOK /\ FilesOK /\ TableOK /\ SeenOK /\ CloneOK /\ LeakOK
  BY TypeParts
<1>1. UNCHANGED steady => FilesOK' /\ TableOK'
  BY <1>0 DEF steady, worldVars, tableVars, FilesOK, TableOK
<1>2. CASE ScanLeaks
  <2>1. UNCHANGED <<steady, clone, firstSeen, ledger, told>> /\ Forget
    BY <1>2 DEF ScanLeaks
  <2>2. faults' \in 0..MaxFaults
    BY <1>0, <1>2, FaultTypes DEF ScanLeaks, PlaceOK
  <2>3. pc' \in {"storm", "clean"} /\ at' = now /\ todo' \in Seq({})
    BY <1>2, Finite, GotoLoop DEF ScanLeaks
  <2>4. PlaceOK' /\ LoopOK'
    BY <1>0, <2>1, <2>2, <2>3 DEF PlaceOK, LoopOK, Loop, steady, worldVars, Forget
  <2>5. LeakOK'
    BY <1>0, <1>2, <2>1 DEF ScanLeaks, LeakOK, Present, Clones, PlaceOK
  <2>. QED
    BY <1>0, <1>1, <2>1, <2>4, <2>5, TypePartsNext DEF Forget, SeenOK, CloneOK
<1>3. CASE AutoClean
  <2>1. UNCHANGED <<steady, found, seenVars, report, firstSeen, ledger, filed, told, faults>>
    BY <1>3 DEF AutoClean
  <2>2. pc' = "storm" /\ at' = now /\ todo' \in Seq({})
    BY <1>3, Finite, GotoLoop DEF AutoClean
  <2>3. CloneOK'
    BY <1>0, <1>3 DEF AutoClean, CloneOK, States
  <2>4. PlaceOK' /\ LoopOK'
    BY <1>0, <2>1, <2>2 DEF PlaceOK, LoopOK, Loop, steady, worldVars, seenVars
  <2>. QED
    BY <1>0, <1>1, <2>1, <2>3, <2>4, TypePartsNext DEF SeenOK, seenVars, LeakOK
<1>4. CASE Detect
  <2>1. UNCHANGED <<steady, found, seenVars, clone, ledger, filed, told, faults>>
    BY <1>4 DEF Detect
  <2>2. /\ at' = now /\ todo' \in Seq(LeakStorms(now))
        /\ \/ pc' = "idle" /\ LeakStorms(now) = {}
           \/ pc' = "alert" /\ todo' # <<>> /\ LeakStorms(now) \subseteq Sig
    BY <1>4, Finite, GotoLoop DEF Detect
  <2>3. PlaceOK' /\ LoopOK'
    BY <1>0, <2>1, <2>2 DEF PlaceOK, LoopOK, Loop, steady, worldVars, seenVars
  <2>4. report' \subseteq Clone
    BY <1>0, <1>4 DEF Detect, LeakOK
  <2>5. firstSeen' \in [Clone -> Times \cup {None}]
    BY <1>0, <1>4, AppearedTypes DEF Detect, LeakOK, PlaceOK
  <2>. QED
    BY <1>0, <1>1, <2>1, <2>3, <2>4, <2>5, TypePartsNext DEF SeenOK, seenVars, LeakOK, CloneOK
<1>5. CASE Alert \/ Record
  <2>1. UNCHANGED <<steady, found, seenVars, clone, firstSeen, filed>> /\ pc \in {"alert", "record"}
    BY <1>5 DEF Alert, Record
  <2>2. faults' \in 0..MaxFaults
    BY <1>0, <1>5, FaultTypes DEF Alert, Record, Fine, PlaceOK
  <2>3. Head(todo) \in Sig /\ at \in Times
    BY <1>0, <2>1, TailProps DEF LoopOK, Loop, PlaceOK
  <2>4. told' \in [Sig -> Seq(Times)] /\ ledger' \in [Sig -> Times \cup {None}]
    <3>1. CASE Alert
      <4>1. Append(told[Head(todo)], at) \in Seq(Times)
        BY <1>0, <2>3 DEF LeakOK
      <4>2. told' \in {told, [told EXCEPT ![Head(todo)] = Append(@, at)]} /\ ledger' = ledger
        BY <3>1 DEF Alert
      <4>. QED
        BY <1>0, <2>3, <4>1, <4>2 DEF LeakOK
    <3>2. CASE Record
      BY <1>0, <2>3, <3>2 DEF Record, LeakOK
    <3>. QED
      BY <1>5, <3>1, <3>2
  <2>5. CASE Onward
    BY <1>0, <1>1, <2>1, <2>2, <2>4, <2>5, OnwardTypes, TypePartsNext DEF SeenOK, seenVars, LeakOK, CloneOK
  <2>6. CASE pc' = "record" /\ UNCHANGED <<todo, at, report>>
    <3>1. PlaceOK' /\ LoopOK'
      BY <1>0, <2>1, <2>2, <2>6 DEF PlaceOK, LoopOK, Loop, steady, worldVars, seenVars
    <3>. QED
      BY <1>0, <1>1, <2>1, <2>4, <2>6, <3>1, TypePartsNext DEF SeenOK, seenVars, LeakOK, CloneOK
  <2>. QED
    BY <1>5, <2>5, <2>6 DEF Alert, Record, Unsent
<1>. QED
  BY <1>2, <1>3, <1>4, <1>5

LEMMA TypesKept == TypeOK /\ [Next]_vars => TypeOK'
<1>1. ASSUME TypeOK, Next PROVE TypeOK'
  BY <1>1, OutsideTypes, ScanTypes, RunTypes, LeakTypes DEF Next, Tick
<1>2. ASSUME TypeOK, UNCHANGED vars PROVE TypeOK'
  BY <1>2 DEF vars, histVars, stormVars, worldVars, tableVars, seenVars, TypeOK, Loop, Repos, Caches,
              Volumes
<1>. QED
  BY <1>1, <1>2

LEMMA InitTypes == Init => TypeOK
<1>. SUFFICES ASSUME Init PROVE TypeOK
  OBVIOUS
<1>1. MaxUser \in Nat /\ MaxFaults \in Nat /\ MaxSize \in Nat /\ 1 \in Sizes
  BY HistoryAssumption DEF Sizes
<1>2. PlaceOK /\ LoopOK
  BY <1>1, TimesAreNat DEF Init, HistoryInit, PlaceOK, LoopOK, Loop
<1>3. FilesOK
  <2>1. (CHOOSE b \in Branch : TRUE) \in Branch
    BY HistoryAssumption
  <2>. QED
    BY <1>1, <2>1, TimesAreNat DEF Init, HistoryInit, FilesOK, RepoType
<1>4. TableOK /\ SeenOK
  BY DEF Init, HistoryInit, TableOK, SeenOK
<1>5. CloneOK
  BY TimesAreNat DEF Init, CloneOK, States
<1>6. LeakOK
  BY DEF Init, LeakOK
<1>. QED
  BY <1>2, <1>3, <1>4, <1>5, <1>6, TypeParts
-----------------------------------------------------------------------------
(* What the steps leave alone. *)

(* Steps of the daemon leave the machine and its clock alone; they look at *)
(* the clock or go by their last look.                                     *)
LEMMA DaemonSteps ==
    ASSUME Tick \/ (\E t \in {"daily", "pressure", "manual"} : RunTick(t)) \/ Kill \/ Restart
    PROVE  UNCHANGED <<now, scene, repo>> /\ at' \in {at, now}
<1>1. CASE ScanStep
  BY <1>1 DEF ScanStep, Scan, ScanRepo, ScanCache, ScanDisk, NextCollector, Heuristics, Stay, Goto, worldVars
<1>2. CASE ScanLeaks \/ AutoClean \/ Detect \/ Alert \/ Record
  BY <1>2 DEF ScanLeaks, AutoClean, Detect, Alert, Record, Onward, Unsent, Goto, steady, worldVars
<1>. QED
  BY <1>1, <1>2 DEF Tick, RunTick, Kill, Restart, Goto, steady, worldVars

(* The times of a state are natural numbers. *)
LEMMA Clocks ==
    ASSUME TypeOK
    PROVE  now \in Nat /\ at \in Nat /\ faults \in Nat
BY TimesAreNat, FaultTypes DEF TypeOK

LEMMA ClockMoves ==
    ASSUME TypeOK, Elsewhere
    PROVE  at' = at /\ now' \in Nat /\ now' >= now
<1>1. now' = now \/ now' = now + 1
  BY DEF Elsewhere, Machine, Pass
<1>. QED
  BY <1>1, Clocks DEF Elsewhere

-----------------------------------------------------------------------------
(* Commits. *)

LEMMA SettledLater ==
    ASSUME NEW x \in RepoType, NEW t \in Nat, NEW u \in Nat, t <= u, Settled(x, t)
    PROVE  Settled(x, u)
<1>1. x.refs \in Nat /\ \A c \in Branch : x.tips[c].at \in Nat
  BY TimesAreNat DEF RepoType
<1>. QED
  BY <1>1 DEF Settled

LEMMA SettledGit ==
    ASSUME NEW x \in RepoType, now \in Times, NEW b \in Branch, NEW t \in {now, x.refs}, Settled(x, now)
    PROVE  /\ Settled([x EXCEPT !.tips[x.head] = [at |-> now, loose |-> TRUE], !.refs = t], now)
           /\ Settled([x EXCEPT !.tips = [c \in Branch |-> [@[c] EXCEPT !.loose = FALSE]], !.refs = t], now)
           /\ Settled([x EXCEPT !.head = b], now)
           /\ Settled([x EXCEPT !.nm = MinNm, !.nmAt = now], now)
           /\ Settled([x EXCEPT !.nm = 0], now)
           /\ Settled([x EXCEPT !.there = FALSE], now)
<1>0. now \in Nat /\ x.refs \in Nat /\ \A c \in Branch : x.tips[c].at \in Nat
  BY TimesAreNat DEF RepoType
<1>1. Settled([x EXCEPT !.tips[x.head] = [at |-> now, loose |-> TRUE], !.refs = t], now)
  <2>. DEFINE y == [x EXCEPT !.tips[x.head] = [at |-> now, loose |-> TRUE], !.refs = t]
  <2>1. y.refs = t /\ t <= now
    BY <1>0 DEF RepoType, Settled
  <2>2. ASSUME NEW c \in Branch PROVE y.tips[c] = x.tips[c] \/ y.tips[c] = [at |-> now, loose |-> TRUE]
    BY DEF RepoType
  <2>. HIDE DEF y
  <2>3. ASSUME NEW c \in Branch PROVE y.tips[c].at <= now
    BY <1>0, <2>2 DEF Settled
  <2>4. Settled(y, now)
    BY <1>0, <2>1, <2>3 DEF Settled
  <2>. QED
    BY <2>4 DEF y
<1>2. Settled([x EXCEPT !.tips = [c \in Branch |-> [@[c] EXCEPT !.loose = FALSE]], !.refs = t], now)
  BY <1>0 DEF Settled, RepoType
<1>. QED
  BY <1>1, <1>2 DEF Settled, RepoType

LEMMA CommitsKept ==
    ASSUME TypeOK, Commits, [Next]_vars
    PROVE  Commits'
<1>0. \A r \in Repo : repo[r] \in RepoType
  BY TypeParts DEF FilesOK
<1>1. CASE Elsewhere
  <2>1. ASSUME NEW r \in Repo PROVE Settled(repo'[r], now)
    <3>1. ASSUME NEW q \in Repo, NEW f, Settled(f, now), Git(q, f) PROVE Settled(repo'[r], now)
      <4>1. repo'[r] \in {repo[r], f}
        BY <3>1, TypeParts DEF Git, FilesOK
      <4>. QED
        BY <3>1, <4>1 DEF Commits
    <3>2. ASSUME NEW q \in Repo,
                 Commit(q) \/ Gc(q) \/ (\E b \in Branch : Checkout(q, b)) \/ Install(q) \/ Uninstall(q)
                   \/ Delete(q)
          PROVE  Settled(repo'[r], now)
      <4>1. repo[q] \in RepoType /\ repo[q].head \in Branch /\ Settled(repo[q], now) /\ now \in Times
        BY <1>0, TypeParts DEF RepoType, Commits, PlaceOK
      <4>2. PICK b \in Branch : Checkout(q, b) \/ Commit(q) \/ Gc(q) \/ Install(q) \/ Uninstall(q) \/ Delete(q)
        BY <3>2, <4>1
      <4>. QED
        BY <3>1, <4>1, <4>2, SettledGit DEF Commit, Gc, Checkout, Install, Uninstall, Delete
    <3>. QED
      BY <1>1, <3>2 DEF Elsewhere, Machine, worldVars, Commits
  <2>2. TypeOK'
    BY TypesKept
  <2>3. \A r \in Repo : repo'[r] \in RepoType
    BY <2>2, TypePartsNext DEF FilesOK
  <2>4. \A r \in Repo : Settled(repo'[r], now')
    BY <1>1, <2>1, <2>3, Clocks, ClockMoves, SettledLater
  <2>5. at' <= now'
    BY <1>1, Clocks, ClockMoves DEF Commits
  <2>. QED
    BY <2>4, <2>5 DEF Commits, Settled
<1>2. CASE Programs \/ UNCHANGED vars
  BY <1>2 DEF Programs, vars, histVars, worldVars, Commits, Settled
<1>3. CASE UNCHANGED <<now, scene, repo>> /\ at' \in {at, now}
  <2>1. at' <= now
    BY <1>3, Clocks DEF Commits
  <2>. QED
    BY <1>3, <2>1 DEF Commits, Settled
<1>. QED
  BY <1>1, <1>2, <1>3, DaemonSteps DEF Next
-----------------------------------------------------------------------------
(* The rows. *)

(* Only the scan writes rows; no other step is in the middle of it, but    *)
(* for the first, which finds the clock ahead of the last tick.            *)
LEMMA NotScanning ==
    ASSUME [Next]_vars, ~ScanStep
    PROVE  /\ UNCHANGED tableVars
           /\ \/ UNCHANGED <<scene, pc, todo, at, whole>>
              \/ pc' \notin {"repos", "caches", "disks"}
              \/ pc' = "repos" /\ at' = now /\ now > at
<1>1. CASE Elsewhere \/ Programs \/ UNCHANGED vars
  BY <1>1 DEF Elsewhere, Programs, vars, histVars, seenVars, tableVars
<1>2. CASE \E t \in {"daily", "pressure", "manual"} : RunTick(t)
  BY <1>2 DEF RunTick, Goto
<1>3. CASE ScanLeaks \/ AutoClean \/ Detect \/ Kill \/ Restart
  BY <1>3 DEF ScanLeaks, AutoClean, Detect, Kill, Restart, Goto, steady
<1>4. CASE Alert \/ Record
  BY <1>4 DEF Alert, Record, Onward, Unsent, steady
<1>. QED
  BY <1>1, <1>2, <1>3, <1>4 DEF Next, Tick

(* What a step of the scan adds to the rows, and when.                     *)
LEMMA ScanRows ==
    ASSUME TypeOK, ScanStep
    PROVE  /\ cacheRows' \subseteq cacheRows \cup {[of |-> Head(todo), bytes |-> size[Head(todo)], at |-> at]}
           /\ diskRows' \subseteq diskRows \cup {[of |-> Head(todo), bytes |-> used[Head(todo)], at |-> at]}
           /\ cacheRows \subseteq cacheRows' /\ diskRows \subseteq diskRows'
           /\ cacheRows' # cacheRows => pc = "caches" /\ todo # <<>> /\ Stay
           /\ diskRows' # diskRows => pc = "disks" /\ todo # <<>> /\ Stay /\ Recent(Head(todo)) = {}
BY DEF ScanStep, Scan, ScanRepo, ScanCache, ScanDisk, NextCollector, Heuristics, tableVars

LEMMA RowTimes ==
    ASSUME TypeOK
    PROVE  \A s \in cacheRows \cup diskRows : s.at \in Nat
BY TimesAreNat DEF TypeOK

LEMMA RowsKept ==
    ASSUME TypeOK, Commits, Rows, [Next]_vars
    PROVE  Rows'
<1>0. at \in Nat /\ now \in Nat /\ at <= now /\ \A s \in cacheRows \cup diskRows : s.at \in Nat /\ s.at <= at
  BY Clocks, RowTimes DEF Commits, Rows
<1>1. at' \in {at, now}
  BY DaemonSteps DEF Next, Elsewhere, Programs, vars, histVars
<1>2. CASE ~ScanStep
  <2>1. UNCHANGED tableVars
    BY <1>2, NotScanning
  <2>2. \A s \in cacheRows \cup diskRows : s.at <= at'
    BY <1>0, <1>1
  <2>3. CASE UNCHANGED <<scene, pc, todo, at, whole>>
    BY <2>1, <2>3 DEF Rows, tableVars
  <2>4. CASE pc' \notin {"repos", "caches", "disks"}
    BY <2>1, <2>2, <2>4 DEF Rows, tableVars
  <2>5. CASE pc' = "repos" /\ at' = now /\ now > at
    <3>1. \A s \in cacheRows : s.at < at'
      BY <1>0, <2>5
    <3>. QED
      BY <2>1, <2>2, <2>5, <3>1 DEF Rows, tableVars
  <2>. QED
    BY <1>2, <2>3, <2>4, <2>5, NotScanning
<1>3. CASE ScanStep
  <2>1. \A s \in cacheRows' \cup diskRows' : s.at <= at'
    <3>1. CASE cacheRows' = cacheRows /\ diskRows' = diskRows
      BY <1>0, <1>1, <3>1
    <3>2. CASE cacheRows' # cacheRows \/ diskRows' # diskRows
      <4>1. at' = at
        BY <1>3, <3>2, ScanRows DEF Stay
      <4>2. \A s \in cacheRows' \cup diskRows' : s \in cacheRows \cup diskRows \/ s.at = at
        BY <1>3, ScanRows
      <4>. QED
        BY <1>0, <4>1, <4>2
    <3>. QED
      BY <3>1, <3>2
  <2>2. CASE pc' = "repos"
    <3>1. pc = "repos" /\ at' = at
      BY <1>3, <2>2 DEF ScanStep, Scan, ScanRepo, ScanCache, ScanDisk, NextCollector, Heuristics, Stay, Goto
    <3>2. cacheRows' = cacheRows
      BY <1>3, <3>1, ScanRows
    <3>. QED
      BY <2>1, <2>2, <3>1, <3>2 DEF Rows
  <2>3. CASE pc' = "caches" /\ pc = "caches"
    <3>1. todo # <<>> /\ Stay
      BY <1>3, <2>3 DEF ScanStep, Scan, ScanRepo, ScanCache, ScanDisk, NextCollector, Heuristics, Goto
    <3>2. /\ IsInjective(Tail(todo)) /\ Head(todo) \notin ToSet(Tail(todo))
          /\ ToSet(Tail(todo)) \subseteq ToSet(todo)
      BY <2>3, <3>1, TailProps DEF Rows, TypeOK
    <3>3. \A s \in cacheRows' : s.of \in ToSet(Tail(todo)) => s \in cacheRows
      BY <1>3, <3>2, ScanRows
    <3>. QED
      BY <2>1, <2>3, <3>1, <3>2, <3>3 DEF Rows, Stay
  <2>4. CASE pc' = "caches" /\ pc # "caches"
    <3>1. pc = "repos" /\ Goto("caches", Caches)
      BY <1>3, <2>4 DEF ScanStep, Scan, ScanRepo, ScanCache, ScanDisk, NextCollector, Heuristics, Stay, Goto
    <3>2. IsInjective(todo') /\ at' = now
      BY <3>1, Finite, GotoLoop
    <3>3. cacheRows' = cacheRows
      BY <1>3, <3>1, ScanRows
    <3>4. \A s \in cacheRows : s.at < now
      BY <1>0, <3>1 DEF Rows
    <3>. QED
      BY <2>1, <2>4, <3>2, <3>3, <3>4 DEF Rows
  <2>. QED
    BY <2>1, <2>2, <2>3, <2>4 DEF Rows
<1>. QED
  BY <1>2, <1>3

LEMMA SpacedKept ==
    ASSUME TypeOK, Rows, SamplesAreSpaced, [Next]_vars
    PROVE  SamplesAreSpaced'
<1>1. CASE diskRows' = diskRows
  BY <1>1 DEF SamplesAreSpaced
<1>2. CASE diskRows' # diskRows
  <2>. DEFINE n == [of |-> Head(todo), bytes |-> used[Head(todo)], at |-> at]
  <2>1. ScanStep /\ diskRows' \subseteq diskRows \cup {n} /\ Recent(Head(todo)) = {}
    BY <1>2, NotScanning, ScanRows DEF tableVars
  <2>2. n.of = Head(todo) /\ n.at = at
    OBVIOUS
  <2>. HIDE DEF n
  <2>3. \A s \in diskRows : s.at \in Nat /\ s.at <= at
    BY RowTimes DEF Rows
  <2>4. at \in Nat /\ Throttle \in Nat
    BY Clocks, HistoryAssumption
  <2>5. \A s \in diskRows : s.of = n.of => ~(s.at >= at - Throttle)
    BY <2>1, <2>2 DEF Recent, DiskSeries
  <2>6. \A s \in diskRows : s.of = n.of => at - s.at > Throttle
    BY <2>3, <2>4, <2>5
  <2>. SUFFICES ASSUME NEW a \in diskRows', NEW b \in diskRows', a.of = b.of, a.at < b.at
                PROVE  b.at - a.at > Throttle
    BY DEF SamplesAreSpaced
  <2>7. CASE a \in diskRows /\ b \in diskRows
    BY <2>7 DEF SamplesAreSpaced
  <2>8. CASE a \in diskRows /\ b = n
    <3>1. at - a.at > Throttle
      BY <2>2, <2>6, <2>8
    <3>. QED
      BY <2>2, <2>8, <3>1
  <2>9. CASE a = n
    <3>1. n.at < b.at
      BY <2>9
    <3>2. b.at <= n.at /\ b.at \in Nat /\ n.at \in Nat
      BY <2>1, <2>2, <2>3, <2>4
    <3>. QED
      BY <3>1, <3>2
  <2>. QED
    BY <2>1, <2>7, <2>8, <2>9
<1>. QED
  BY <1>1, <1>2

LEMMA SampledKept ==
    ASSUME TypeOK, Sampled, [Next]_vars
    PROVE  Sampled'
<1>. SUFFICES ASSUME pc' = "disks", whole',
                     NEW v \in Volumes', v \notin ToSet(todo')
              PROVE  \E s \in diskRows' : s.of = v /\ s.at >= at' - Throttle
  BY DEF Sampled
<1>1. CASE ~ScanStep
  BY <1>1, NotScanning DEF Sampled, tableVars, Volumes
<1>2. CASE ScanStep /\ pc = "disks"
  <2>0. v \in Volumes
    BY <1>2 DEF ScanStep, Volumes
  <2>1. ScanDisk /\ todo # <<>> /\ Stay /\ whole' = whole
    BY <1>2 DEF ScanStep, Scan, ScanRepo, ScanCache, ScanDisk, NextCollector, Heuristics, Goto, Fine, Fail
  <2>2. ToSet(todo) = {Head(todo)} \cup ToSet(todo') /\ at' = at
    BY <2>1, TailProps DEF TypeOK, Stay
  <2>3. CASE v \in ToSet(todo)
    <3>1. v = Head(todo)
      BY <2>2, <2>3
    <3>2. \/ [of |-> v, bytes |-> used[v], at |-> at] \in diskRows'
          \/ Recent(v) # {} /\ diskRows' = diskRows
      BY <1>2, <2>1, <3>1 DEF ScanDisk, Fail, Fine, Goto
    <3>3. at >= at - Throttle
      BY Clocks, HistoryAssumption
    <3>. QED
      BY <2>2, <3>2, <3>3 DEF Recent, DiskSeries
  <2>4. CASE v \notin ToSet(todo)
    BY <1>2, <2>0, <2>1, <2>2, <2>4, ScanRows DEF Sampled
  <2>. QED
    BY <2>3, <2>4
<1>3. CASE ScanStep /\ pc # "disks"
  <2>1. Goto("disks", Volumes) \/ whole' = FALSE
    BY <1>3 DEF ScanStep, Scan, ScanRepo, ScanCache, ScanDisk, NextCollector, Heuristics, Stay, Goto, Fail
  <2>2. v \in Volumes
    BY <1>3 DEF ScanStep, Volumes
  <2>. QED
    BY <2>1, <2>2, Finite, GotoLoop
<1>. QED
  BY <1>1, <1>2, <1>3

LEMMA NoneUnsampled ==
    ASSUME TypeOK, Sampled, [Next]_vars
    PROVE  NoVolumeUnsampled
<1>. SUFFICES ASSUME pc = "disks", pc' = "heur", whole', NEW v \in Volumes
              PROVE  \E s \in diskRows' : s.of = v /\ s.at >= at - Throttle
  BY DEF NoVolumeUnsampled
<1>1. ScanStep
  <2>1. CASE Elsewhere \/ Programs \/ UNCHANGED vars
    BY <2>1 DEF Elsewhere, Programs, vars, histVars
  <2>. QED
    BY <2>1 DEF Next, Tick, RunTick, ScanLeaks, AutoClean, Detect, Alert, Record, Kill, Restart
<1>2. todo = <<>> /\ whole /\ diskRows' = diskRows
  BY <1>1 DEF ScanStep, Scan, ScanRepo, ScanCache, ScanDisk, NextCollector, Heuristics, Stay, Fine, Fail,
              tableVars
<1>3. v \notin ToSet(todo)
  BY <1>2 DEF ToSet
<1>. QED
  BY <1>2, <1>3 DEF Sampled
-----------------------------------------------------------------------------
(* What a tick measures, and what it makes of it. *)

LEMMA MeasuredKept ==
    ASSUME TypeOK, Commits, Rows, Measured, [Next]_vars
    PROVE  Measured'
<1>1. CASE ScanStep /\ pc = "caches" /\ todo # <<>> /\ cacheRows' # cacheRows
  <2>. DEFINE h == Head(todo)
              n == [of |-> h, bytes |-> size[h], at |-> at]
  <2>1. /\ cacheRows' = cacheRows \cup {n} /\ measured' = [measured EXCEPT ![h] = size[h]]
        /\ UNCHANGED <<idleRows, walked>>
    BY <1>1 DEF ScanStep, Scan, ScanRepo, ScanCache, ScanDisk, NextCollector, Heuristics, Goto, tableVars
  <2>2. h \in Cache /\ h \in ToSet(todo)
    BY <1>1, TailProps DEF TypeOK, Loop, Caches
  <2>3. n.of = h /\ n.bytes = size[h] /\ n.at = at
    OBVIOUS
  <2>. HIDE DEF h, n
  <2>4. \A z \in cacheRows' : z.of = h => z.at < n.at \/ z = n
    BY <1>1, <2>1, <2>2, <2>3 DEF Rows
  <2>5. ASSUME NEW c \in Cache, measured'[c] # None
        PROVE  \E r \in cacheRows' : /\ r.of = c /\ r.bytes = measured'[c]
                                     /\ \A z \in cacheRows' : z.of = c => z.at < r.at \/ z = r
    <3>1. CASE c = h
      BY <2>1, <2>2, <2>3, <2>4, <3>1 DEF TypeOK
    <3>2. CASE c # h
      <4>1. measured'[c] = measured[c] /\ \A z \in cacheRows' : z.of = c => z \in cacheRows
        BY <2>1, <2>3, <3>2 DEF TypeOK
      <4>. QED
        BY <2>1, <2>5, <4>1 DEF Measured
    <3>. QED
      BY <3>1, <3>2
  <2>. QED
    BY <2>1, <2>5 DEF Measured
<1>2. CASE ScanStep /\ cacheRows' = cacheRows
  <2>1. measured' = measured
    <3>1. CASE ScanCache
      <4>1. PICK r : r = [of |-> Head(todo), bytes |-> size[Head(todo)], at |-> at]
        OBVIOUS
      <4>2. r.of = Head(todo) /\ r.at = at /\ pc = "caches" /\ todo # <<>>
        BY <3>1, <4>1 DEF ScanCache
      <4>3. Head(todo) \in ToSet(todo)
        BY <4>2, TailProps DEF TypeOK
      <4>4. r \notin cacheRows
        BY <4>2, <4>3, Clocks, RowTimes DEF Rows
      <4>. QED
        BY <1>2, <3>1, <4>1, <4>4 DEF ScanCache
    <3>. QED
      BY <1>2, <3>1 DEF ScanStep, Scan, ScanRepo, ScanDisk, NextCollector, Heuristics
  <2>2. ASSUME NEW r \in Repo, walked'[r] # None, walked'[r].tip # None
        PROVE  walked'[r].tip <= idleRows'[r].last
    <3>1. CASE UNCHANGED <<walked, idleRows>>
      BY <2>2, <3>1 DEF Measured
    <3>2. CASE ~UNCHANGED <<walked, idleRows>>
      <4>. DEFINE h == Head(todo)
      <4>1. /\ pc = "repos" /\ todo # <<>>
            /\ idleRows' = [idleRows EXCEPT ![h] = [last |-> LastActive(h), nm |-> repo[h].nm]]
            /\ walked' = [walked EXCEPT ![h] = [commit |-> LastCommit(h), tip |-> LooseTip(h)]]
        BY <1>2, <3>2 DEF ScanStep, Scan, ScanRepo, ScanCache, ScanDisk, NextCollector, Heuristics, tableVars
      <4>2. h \in Repo
        BY <4>1, TailProps DEF TypeOK, Loop, Repos
      <4>. HIDE DEF h
      <4>3. LooseTip(h) # None => LooseTip(h) <= LastActive(h)
        BY <4>2, HeadTimes DEF LooseTip, HeadTime
      <4>4. CASE r = h
        <5>1. /\ walked'[r] = [commit |-> LastCommit(h), tip |-> LooseTip(h)]
              /\ idleRows'[r] = [last |-> LastActive(h), nm |-> repo[h].nm]
          BY <4>1, <4>2, <4>4 DEF TypeOK
        <5>2. walked'[r].tip = LooseTip(h) /\ idleRows'[r].last = LastActive(h)
          BY <5>1
        <5>. QED
          BY <2>2, <4>3, <5>2
      <4>5. CASE r # h
        BY <2>2, <4>1, <4>5 DEF TypeOK, Measured
      <4>. QED
        BY <4>4, <4>5
    <3>. QED
      BY <3>1, <3>2
  <2>. QED
    BY <1>2, <2>1, <2>2 DEF Measured
<1>3. CASE ~ScanStep
  <2>1. \/ UNCHANGED <<walked, measured>>
        \/ walked' = [r \in Repo |-> None] /\ measured' = [c \in Cache |-> None]
    <3>1. CASE Elsewhere \/ Programs \/ UNCHANGED vars \/ \E t \in {"daily", "pressure", "manual"} : RunTick(t)
      BY <3>1 DEF Elsewhere, Programs, RunTick, vars, histVars, seenVars
    <3>. QED
      BY <1>3, <3>1 DEF Next, Tick, ScanLeaks, AutoClean, Detect, Alert, Record, Kill, Restart, Forget, seenVars
  <2>. QED
    BY <1>3, <2>1, NotScanning DEF Measured, tableVars
<1>. QED
  BY <1>1, <1>2, <1>3, ScanRows

(* Rows have an oldest. *)
LEMMA OldestIsIn ==
    ASSUME NEW S, S # {}, \A s \in S : s.at \in Times
    PROVE  Oldest(S) \in S
<1>. DEFINE T == {s.at : s \in S}
<1>1. T \in SUBSET (0..MaxTime) /\ T # {} /\ MaxTime \in Nat
  BY HistoryAssumption DEF Times
<1>2. Min(T) \in T /\ \A t \in T : Min(T) <= t
  BY <1>1, MinBounds
<1>3. PICK s \in S : s.at = Min(T)
  BY <1>2
<1>4. \A z \in S : s.at <= z.at
  BY <1>2, <1>3
<1>. QED
  BY <1>4 DEF Oldest

(* A cache that grew, and whose last row is the one measured.              *)
LEMMA GrowthIsMeasured ==
    ASSUME TypeOK, Measured, NEW t \in Nat, NEW c \in CacheVelocity(t), measured[c] # None
    PROVE  \E s \in cacheRows : s.of = c /\ s.bytes > 0 /\ measured[c] >= Multi * s.bytes
<1>. DEFINE S == CacheSeries(c, t - Lookback)
<1>1. c \in Cache /\ Grew(S) /\ S \subseteq cacheRows /\ \A s \in S : s.of = c /\ s.at >= t - Lookback
  BY DEF CacheVelocity, CacheSeries
<1>2. \A s \in cacheRows : s.at \in Times /\ s.at \in Nat
  BY TimesAreNat DEF TypeOK
<1>3. S # {}
  <2>. HIDE DEF S
  <2>1. Cardinality(S) >= 2
    BY <1>1 DEF Grew
  <2>2. Cardinality({}) = 0
    BY FS_EmptySet
  <2>. QED
    BY <2>1, <2>2
<1>4. Oldest(S) \in S
  BY <1>1, <1>2, <1>3, OldestIsIn
<1>5. PICK r \in cacheRows : /\ r.of = c /\ r.bytes = measured[c]
                             /\ \A z \in cacheRows : z.of = c => z.at < r.at \/ z = r
  BY <1>1 DEF Measured
<1>6. r \in S
  <2>1. t - Lookback \in Int
    BY HistoryAssumption
  <2>2. PICK z \in S : TRUE
    BY <1>3
  <2>3. r.at >= t - Lookback
    BY <1>1, <1>2, <1>5, <2>1, <2>2
  <2>. QED
    BY <1>5, <2>3 DEF CacheSeries
<1>7. Newest(S) = r
  <2>1. \A z \in S : z.at <= r.at
    BY <1>1, <1>2, <1>5
  <2>2. ASSUME NEW m \in S, \A z \in S : z.at <= m.at PROVE m = r
    BY <1>1, <1>2, <1>5, <1>6, <2>2
  <2>3. \E m \in S : \A z \in S : z.at <= m.at
    BY <1>6, <2>1
  <2>4. Newest(S) \in S /\ \A z \in S : z.at <= Newest(S).at
    BY <2>3 DEF Newest
  <2>. QED
    BY <2>2, <2>4
<1>8. Oldest(S).bytes > 0 /\ r.bytes >= Multi * Oldest(S).bytes
  BY <1>1, <1>7 DEF Grew
<1>9. Oldest(S) \in cacheRows /\ Oldest(S).of = c
  BY <1>1, <1>4
<1>. QED
  BY <1>5, <1>8, <1>9

LEMMA FindingsKept ==
    ASSUME TypeOK, Commits, Measured, Findings, [Next]_vars
    PROVE  Findings'
<1>1. CASE found' = {}
  BY <1>1 DEF Findings, FindingsAreTrue, VelocityIsGrowth, IdleIsQuiet
<1>2. CASE found' # {} /\ Heuristics /\ ScanStep
  <2>1. /\ pc' = "leaks" /\ now' = now /\ UNCHANGED <<cacheRows, measured, walked>>
        /\ found' \subseteq IdleRepos(now) \cup CacheVelocity(now)
    BY <1>2 DEF Heuristics, ScanStep, Goto, tableVars
  <2>2. IdleRepos(now) \subseteq Repo /\ CacheVelocity(now) \subseteq Cache /\ Cache \cap Repo = {}
    BY HistoryAssumption DEF IdleRepos, CacheVelocity
  <2>3. VelocityIsGrowth'
    <3>. SUFFICES ASSUME NEW c \in found' \cap Cache, measured[c] # None
                  PROVE  \E s \in cacheRows : s.of = c /\ s.bytes > 0 /\ measured[c] >= Multi * s.bytes
      BY <2>1 DEF VelocityIsGrowth
    <3>. QED
      BY <2>1, <2>2, Clocks, GrowthIsMeasured
  <2>4. IdleIsQuiet'
    <3>. SUFFICES ASSUME NEW r \in found' \cap Repo, walked[r] # None, walked[r].tip # None
                  PROVE  walked[r].tip <= now - MinIdle
      BY <2>1 DEF IdleIsQuiet
    <3>1. r \in IdleRepos(now)
      BY <2>1, <2>2
    <3>2. idleRows[r] # None /\ idleRows[r].last <= now - MinIdle /\ walked[r].tip <= idleRows[r].last
      BY <3>1 DEF IdleRepos, Measured
    <3>3. idleRows[r].last \in Nat /\ walked[r].tip \in Nat
      BY <3>2, TimesAreNat DEF TypeOK
    <3>. QED
      BY <3>2, <3>3, Clocks, HistoryAssumption
  <2>. QED
    BY <2>1, <2>3, <2>4 DEF Findings, FindingsAreTrue
<1>3. CASE found' = found /\ found # {} /\ UNCHANGED <<pc, cacheRows, measured, walked>>
  <2>1. now' \in Nat /\ now' >= now
    BY Clocks, ClockMoves, DaemonSteps DEF Next, Programs, vars, histVars
  <2>2. ASSUME NEW r \in found \cap Repo, walked[r] # None, walked[r].tip # None
        PROVE  walked[r].tip <= now' - MinIdle
    <3>1. walked[r].tip <= now - MinIdle /\ walked[r].tip \in Nat
      BY <2>2, TimesAreNat DEF Findings, FindingsAreTrue, IdleIsQuiet, TypeOK
    <3>. QED
      BY <2>1, <3>1, Clocks, HistoryAssumption
  <2>. QED
    BY <1>3, <2>2 DEF Findings, FindingsAreTrue, VelocityIsGrowth, IdleIsQuiet
<1>4. CASE found # {} /\ pc = "leaks"
  <2>1. CASE Elsewhere \/ Programs \/ UNCHANGED vars
    <3>1. found' = found /\ UNCHANGED <<pc, cacheRows, measured, walked>>
      BY <2>1 DEF Elsewhere, Programs, vars, histVars, tableVars, seenVars
    <3>. QED
      BY <1>3, <1>4, <3>1
  <2>2. CASE ~(Elsewhere \/ Programs \/ UNCHANGED vars)
    <3>1. ScanLeaks \/ Kill
      BY <1>4, <2>2 DEF Next, Tick, RunTick, ScanStep, Scan, ScanRepo, ScanCache, ScanDisk, NextCollector,
                        Heuristics, AutoClean, Detect, Alert, Record, Restart
    <3>. QED
      BY <1>1, <3>1 DEF ScanLeaks, Kill, Forget
  <2>. QED
    BY <2>1, <2>2
<1>5. CASE found = {}
  <2>1. found' = {} \/ (Heuristics /\ ScanStep)
    <3>1. CASE Elsewhere \/ Programs \/ UNCHANGED vars \/ \E t \in {"daily", "pressure", "manual"} : RunTick(t)
      BY <1>5, <3>1 DEF Elsewhere, Programs, RunTick, vars, histVars
    <3>2. CASE ScanStep
      BY <1>5, <3>2 DEF ScanStep, Scan, ScanRepo, ScanCache, ScanDisk, NextCollector
    <3>. QED
      BY <1>5, <3>1, <3>2
         DEF Next, Tick, ScanLeaks, AutoClean, Detect, Alert, Record, Kill, Restart, Forget
  <2>. QED
    BY <1>1, <1>2, <2>1
<1>. QED
  BY <1>4, <1>5 DEF Findings
-----------------------------------------------------------------------------
(* The alerts. *)

(* One more alert is one more close pair at most, and none when it is far  *)
(* from the last.                                                          *)
LEMMA CloseCounts ==
    ASSUME NEW q \in Seq(Nat)
    PROVE  IsFiniteSet(Close(q)) /\ Cardinality(Close(q)) \in Nat
<1>1. Close(q) \in SUBSET (1..(Len(q) - 1)) /\ IsFiniteSet(1..(Len(q) - 1))
  BY FS_Interval DEF Close
<1>. QED
  BY <1>1, FS_Subset, FS_CardinalityType

LEMMA CloseAppended ==
    ASSUME NEW q \in Seq(Nat), NEW t \in Nat
    PROVE  /\ q = <<>> => Cardinality(Close(Append(q, t))) = 0
           /\ q # <<>> /\ t - Last(q) >= Cooldown => Close(Append(q, t)) = Close(q)
           /\ Cardinality(Close(Append(q, t))) <= Cardinality(Close(q)) + 1
<1>. DEFINE n == Len(q)
            a == Append(q, t)
<1>1. n \in Nat /\ Len(a) = n + 1 /\ a \in Seq(Nat) /\ a[n + 1] = t /\ \A i \in 1..n : a[i] = q[i]
  OBVIOUS
<1>2. Cooldown \in Nat /\ \A i \in 1..n : q[i] \in Nat
  BY StormsAssumption
<1>3. n # 0 => Last(q) = q[n] /\ q # <<>>
  BY <1>1 DEF Last
<1>4. n = 0 <=> q = <<>>
  OBVIOUS
<1>. HIDE DEF n, a
<1>5. ASSUME NEW i \in 1..n, i # n PROVE i \in Close(a) <=> i \in Close(q)
  <2>1. i \in 1..(n - 1) /\ i + 1 \in 1..n /\ i \in 1..((n + 1) - 1)
    BY <1>1, <1>5
  <2>2. a[i] = q[i] /\ a[i + 1] = q[i + 1]
    BY <1>1, <2>1
  <2>. QED
    BY <1>1, <2>1, <2>2 DEF Close, n
<1>6. Close(a) \subseteq 1..n /\ Close(q) \subseteq (1..n) \ {n}
  BY <1>1 DEF Close, n
<1>7. Close(a) \subseteq Close(q) \cup {n} /\ Close(q) \subseteq Close(a)
  BY <1>5, <1>6
<1>8. Cardinality(Close(a)) <= Cardinality(Close(q)) + 1
  <2>1. Close(a) = Close(q) \/ Close(a) = Close(q) \cup {n}
    BY <1>7
  <2>2. Cardinality(Close(q)) \in Nat /\ n \notin Close(q)
    BY <1>6, CloseCounts
  <2>3. Cardinality(Close(q) \cup {n}) = Cardinality(Close(q)) + 1
    BY <2>2, CloseCounts, FS_AddElement
  <2>4. CASE Close(a) = Close(q)
    BY <2>2, <2>4
  <2>5. CASE Close(a) = Close(q) \cup {n}
    BY <2>2, <2>3, <2>5
  <2>. QED
    BY <2>1, <2>4, <2>5
<1>9. ASSUME q = <<>> PROVE Cardinality(Close(a)) = 0
  <2>1. Close(a) = {}
    BY <1>1, <1>4, <1>6, <1>9
  <2>. QED
    BY <2>1, FS_EmptySet
<1>10. ASSUME q # <<>>, t - Last(q) >= Cooldown PROVE Close(a) = Close(q)
  <2>1. n \in 1..n /\ n # 0
    BY <1>1, <1>4, <1>10
  <2>2. a[n + 1] - a[n] >= Cooldown /\ a[n] \in Nat
    BY <1>1, <1>2, <1>3, <1>10, <2>1
  <2>3. n \notin Close(a)
    BY <1>1, <1>2, <2>2 DEF Close
  <2>. QED
    BY <1>7, <2>3
<1>. QED
  BY <1>8, <1>9, <1>10 DEF a

LEMMA ToldTypes ==
    ASSUME TypeOK, NEW s \in Sig
    PROVE  /\ told[s] \in Seq(Nat) /\ Cardinality(Close(told[s])) \in Nat
           /\ told[s] # <<>> => Last(told[s]) \in Times /\ Last(told[s]) \in Range(told[s])
<1>0. told[s] \in Seq(Times)
  BY DEF TypeOK
<1>1. told[s] \in Seq(Times) /\ told[s] \in Seq(Nat)
  BY <1>0, TimesAreNat, SeqOfMore
<1>2. ASSUME told[s] # <<>> PROVE Last(told[s]) \in Times /\ Last(told[s]) \in Range(told[s])
  <2>1. Len(told[s]) \in DOMAIN told[s] /\ Last(told[s]) = told[s][Len(told[s])]
    BY <1>1, <1>2 DEF Last
  <2>. QED
    BY <1>1, <2>1 DEF Range
<1>. QED
  BY <1>1, <1>2, CloseCounts
(* The account of a signature that no step of its own touches.             *)
LEMMA PaidQuiet ==
    ASSUME TypeOK, TypeOK', Paid, UNCHANGED <<told, ledger>>, faults' >= faults,
           pc # "record", pc' # "record"
    PROVE  Paid'
<1>1. ASSUME NEW s \in Sig PROVE Cardinality(Close(told[s])) + (IF Owes(s) THEN 1 ELSE 0) <= faults'
  <2>1. Cardinality(Close(told[s])) \in Nat /\ faults \in Nat
    BY ToldTypes, Clocks
  <2>2. faults' \in Nat
    BY HistoryAssumption DEF TypeOK
  <2>. QED
    BY <2>1, <2>2 DEF Paid
<1>. QED
  BY <1>1 DEF Paid, Owes

(* A notification goes out: the account of its signature is settled by the *)
(* ledger, or by a statement that failed.                                  *)
LEMMA PaidSent ==
    ASSUME TypeOK, TypeOK', Paid, pc = "alert", pc' = "record", UNCHANGED <<ledger, todo, at>>,
           told' = [told EXCEPT ![Head(todo)] = Append(@, at)],
           \/ ~Muted(Head(todo)) /\ UNCHANGED faults
           \/ faults' = faults + 1
    PROVE  Paid'
<1>. DEFINE h == Head(todo)
<1>1. h \in Sig /\ at \in Nat /\ faults \in Nat /\ faults' \in Nat
  <2>1. at \in Nat /\ faults \in Nat /\ faults' \in Nat
    BY Clocks
  <2>2. todo \in Seq(Sig) /\ todo # <<>>
    BY TypeParts DEF LoopOK, Loop
  <2>. QED
    BY <2>1, <2>2, TailProps
<1>2. /\ told[h] \in Seq(Nat) /\ told'[h] = Append(told[h], at)
      /\ \A s \in Sig : s # h => told'[s] = told[s]
  BY <1>1, ToldTypes DEF TypeOK
<1>3. Append(told[h], at) # <<>> /\ Last(Append(told[h], at)) = at /\ Append(told[h], at) \in Seq(Nat)
  BY <1>1, <1>2 DEF Last
<1>4. ASSUME NEW s \in Sig, s # h
      PROVE  Cardinality(Close(told'[s])) + (IF Owes(s)' THEN 1 ELSE 0) <= faults'
  <2>1. Owes(s)' = Owes(s) /\ told'[s] = told[s]
    BY <1>2, <1>4 DEF Owes
  <2>2. Cardinality(Close(told[s])) \in Nat
    BY ToldTypes
  <2>3. Cardinality(Close(told[s])) + (IF Owes(s) THEN 1 ELSE 0) <= faults
    BY DEF Paid
  <2>. QED
    BY <1>1, <2>1, <2>2, <2>3
<1>5. Cardinality(Close(told'[h])) <= faults'
  <2>1. Cardinality(Close(told[h])) \in Nat /\ Cardinality(Close(told'[h])) \in Nat
    BY <1>1, <1>2, <1>3, ToldTypes, CloseCounts
  <2>2. Cardinality(Close(told[h])) + (IF Owes(h) THEN 1 ELSE 0) <= faults
    BY <1>1 DEF Paid
  <2>3. CASE told[h] = <<>>
    <3>1. Cardinality(Close(told'[h])) = 0
      BY <1>1, <1>2, <2>3, CloseAppended
    <3>. QED
      BY <1>1, <3>1
  <2>4. CASE told[h] # <<>> /\ at - Last(told[h]) >= Cooldown
    <3>1. Close(told'[h]) = Close(told[h])
      BY <1>1, <1>2, <2>4, CloseAppended
    <3>. QED
      BY <1>1, <2>1, <2>2, <3>1
  <2>5. CASE told[h] # <<>> /\ ~(at - Last(told[h]) >= Cooldown)
    <3>1. Cardinality(Close(told'[h])) <= Cardinality(Close(told[h])) + 1
      BY <1>1, <1>2, CloseAppended
    <3>2. Owes(h) \/ faults' = faults + 1
      <4>1. Last(told[h]) \in Times /\ Last(told[h]) \in Nat /\ Last(told[h]) # None
        BY <1>1, <2>5, ToldTypes, TimesAreNat
      <4>2. Owes(h) \/ ledger[h] = Last(told[h])
        BY <2>5 DEF Owes
      <4>3. ledger[h] = Last(told[h]) => Muted(h)
        BY <1>1, <2>5, <4>1, StormsAssumption DEF Muted
      <4>. QED
        BY <4>2, <4>3
    <3>. QED
      BY <1>1, <2>1, <2>2, <3>1, <3>2
  <2>. QED
    BY <2>3, <2>4, <2>5
<1>6. ~Owes(h)'
  BY DEF Owes
<1>7. Cardinality(Close(told'[h])) + (IF Owes(h)' THEN 1 ELSE 0) <= faults'
  <2>1. Cardinality(Close(told'[h])) \in Nat
    BY <1>1, <1>2, <1>3, CloseCounts
  <2>. QED
    BY <1>1, <1>5, <1>6, <2>1
<1>8. \A s \in Sig : Cardinality(Close(told'[s])) + (IF Owes(s)' THEN 1 ELSE 0) <= faults'
  BY <1>4, <1>7
<1>. QED
  BY <1>2, <1>3, <1>8 DEF Paid

(* The ledger is written, or is not, and that is a failure or a kill.      *)
LEMMA PaidWritten ==
    ASSUME TypeOK, TypeOK', Paid, pc = "record", pc' # "record", UNCHANGED told,
           \/ ledger' = [ledger EXCEPT ![Head(todo)] = at] /\ UNCHANGED faults
           \/ ledger' = ledger /\ faults' = faults + 1
    PROVE  Paid'
<1>. DEFINE h == Head(todo)
<1>1. h \in Sig /\ faults \in Nat /\ faults' \in Nat
  BY TailProps, Clocks, HistoryAssumption DEF TypeOK, Loop
<1>2. ASSUME NEW s \in Sig PROVE Cardinality(Close(told[s])) + (IF Owes(s)' THEN 1 ELSE 0) <= faults'
  <2>1. Cardinality(Close(told[s])) \in Nat
    BY ToldTypes
  <2>2. Cardinality(Close(told[s])) + (IF Owes(s) THEN 1 ELSE 0) <= faults
    BY DEF Paid
  <2>3. CASE faults' = faults + 1
    BY <1>1, <2>1, <2>2, <2>3
  <2>4. CASE ledger' = [ledger EXCEPT ![h] = at] /\ UNCHANGED faults
    <3>1. Owes(s)' => Owes(s)
      <4>1. CASE s = h
        <5>1. ledger'[s] = at /\ Last(told[s]) = at
          BY <1>1, <2>4, <4>1 DEF TypeOK, Paid
        <5>. QED
          BY <5>1 DEF Owes
      <4>2. CASE s # h
        BY <2>4, <4>2 DEF Owes, TypeOK
      <4>. QED
        BY <4>1, <4>2
    <3>. QED
      BY <1>1, <2>1, <2>2, <2>4, <3>1
  <2>. QED
    BY <2>3, <2>4
<1>. QED
  BY <1>2 DEF Paid

(* Whose report and loop stay, or shrink, keeps its storms, if no clone of *)
(* the report changes but by leaving.                                      *)
LEMMA StormsStay ==
    ASSUME TypeOK, StormIsNewOrGone, UNCHANGED <<report, at>>, Range(todo') \subseteq Range(todo),
           pc \in {"alert", "record"},
           \A k \in report : clone'[k].born = clone[k].born /\ (clone[k].st = "gone" => clone'[k].st = "gone")
    PROVE  StormIsNewOrGone'
<1>. SUFFICES ASSUME NEW s \in Range(todo')
              PROVE  Cardinality(Newborn(s)' \cup {k \in report' : SigOf[k] = s /\ clone'[k].st = "gone"})
                        >= MinCount
  BY DEF StormIsNewOrGone
<1>. DEFINE O == Newborn(s) \cup {k \in report : SigOf[k] = s /\ clone[k].st = "gone"}
            P == Newborn(s)' \cup {k \in report' : SigOf[k] = s /\ clone'[k].st = "gone"}
<1>1. O \subseteq P /\ P \in SUBSET Clone
  BY DEF Newborn, TypeOK
<1>2. Cardinality(O) >= MinCount
  BY DEF StormIsNewOrGone
<1>. HIDE DEF O, P
<1>3. IsFiniteSet(P) /\ IsFiniteSet(O) /\ Cardinality(O) <= Cardinality(P)
  BY <1>1, StormsAssumption, FS_Subset
<1>4. Cardinality(P) \in Nat /\ Cardinality(O) \in Nat
  BY <1>3, FS_CardinalityType
<1>5. Cardinality(P) >= MinCount
  BY <1>2, <1>3, <1>4, StormsAssumption
<1>. QED
  BY <1>5 DEF P
(* Clones of the report are or were there, and do not turn back.           *)
LEMMA ClonesOfReport ==
    ASSUME TypeOK, \A k \in report : clone[k].st # "none", [Next]_vars
    PROVE  /\ \A k \in report : /\ clone'[k].born = clone[k].born /\ clone'[k].st # "none"
                                /\ clone[k].st = "gone" => clone'[k].st = "gone"
           /\ \A k \in report' : clone'[k].st # "none"
<1>0. report \subseteq Clone /\ \A k \in Clone : clone[k] \in [st : States, born : Times]
  BY DEF TypeOK
<1>1. CASE Programs
  <2>1. report' = report
    BY <1>1 DEF Programs
  <2>2. ASSUME NEW K, Relaunch(K) PROVE \A k \in report : clone'[k] = clone[k]
    BY <1>0, <2>2 DEF Relaunch
  <2>3. ASSUME NEW s \in Sig, Exit(s), NEW k \in report
        PROVE  /\ clone'[k].born = clone[k].born /\ clone'[k].st # "none"
               /\ clone[k].st = "gone" => clone'[k].st = "gone"
    <3>1. clone'[k] = IF SigOf[k] = s /\ clone[k].st = "live" THEN [clone[k] EXCEPT !.st = "stale"] ELSE clone[k]
      BY <1>0, <2>3 DEF Exit
    <3>. QED
      BY <1>0, <3>1
  <2>4. (\E K \in SUBSET Clones : Relaunch(K)) \/ (\E s \in Sig : Exit(s))
    BY <1>1 DEF Programs
  <2>. QED
    BY <2>1, <2>2, <2>3, <2>4
<1>2. CASE AutoClean
  <2>1. report' = report
    BY <1>2 DEF AutoClean
  <2>2. ASSUME NEW k \in report
        PROVE  clone'[k] = clone[k] \/ clone'[k] = [clone[k] EXCEPT !.st = "gone"]
    BY <1>0, <1>2 DEF AutoClean
  <2>3. ASSUME NEW k \in report
        PROVE  /\ clone'[k].born = clone[k].born /\ clone'[k].st # "none"
               /\ clone[k].st = "gone" => clone'[k].st = "gone"
    <3>1. CASE clone'[k] = clone[k]
      BY <3>1
    <3>2. CASE clone'[k] = [clone[k] EXCEPT !.st = "gone"]
      BY <1>0, <3>2
    <3>. QED
      BY <2>2, <3>1, <3>2
  <2>. QED
    BY <2>1, <2>3
<1>3. CASE clone' = clone /\ (report' \subseteq report \/ report' = Present)
  BY <1>3 DEF Present
<1>4. Programs \/ AutoClean \/ clone' = clone
  BY DEF Next, Tick, Elsewhere, RunTick, ScanStep, ScanLeaks, Detect, Alert, Record, Kill, Restart, vars, stormVars
<1>5. report' \subseteq report \/ ScanLeaks
  <2>1. CASE Alert \/ Record
    BY <2>1 DEF Alert, Record, Onward, Unsent
  <2>. QED
    BY <2>1 DEF Next, Tick, Elsewhere, Programs, RunTick, ScanStep, AutoClean, Detect, Kill, Restart, vars, stormVars
<1>6. ScanLeaks => clone' = clone /\ (report' = Present \/ report' = {})
  BY DEF ScanLeaks
<1>. QED
  BY <1>1, <1>2, <1>3, <1>4, <1>5, <1>6

LEMMA MutedKept ==
    ASSUME TypeOK, MutedByTheTold, Paid, [Next]_vars
    PROVE  MutedByTheTold'
<1>1. \A s \in Sig : told[s] \in Seq(Times)
  BY DEF TypeOK
<1>2. CASE Alert
  <2>1. Head(todo) \in Sig /\ ledger' = ledger
    BY <1>2, TailProps DEF Alert, TypeOK, Loop
  <2>2. told' = told \/ told' = [told EXCEPT ![Head(todo)] = Append(@, at)]
    BY <1>2 DEF Alert
  <2>3. ASSUME NEW s \in Sig PROVE Range(told[s]) \subseteq Range(told'[s])
    <3>1. told'[s] = told[s] \/ told'[s] = Append(told[s], at)
      BY <2>2 DEF TypeOK
    <3>2. Range(told[s]) \subseteq Range(Append(told[s], at))
      BY <1>1 DEF Range
    <3>. QED
      BY <3>1, <3>2
  <2>. QED
    BY <2>1, <2>3 DEF MutedByTheTold
<1>3. CASE Record
  <2>1. Head(todo) \in Sig /\ told' = told /\ pc = "record"
    BY <1>3, TailProps DEF Record, TypeOK, Loop
  <2>2. at \in Range(told[Head(todo)])
    BY <2>1, ToldTypes DEF Paid
  <2>3. ledger' = ledger \/ ledger' = [ledger EXCEPT ![Head(todo)] = at]
    BY <1>3 DEF Record
  <2>. QED
    BY <2>1, <2>2, <2>3 DEF MutedByTheTold, TypeOK
<1>4. CASE UNCHANGED <<told, ledger>>
  BY <1>4 DEF MutedByTheTold
<1>5. Alert \/ Record \/ UNCHANGED <<told, ledger>>
  BY DEF Next, Tick, Elsewhere, Programs, RunTick, ScanStep, ScanLeaks, AutoClean, Detect, Kill, Restart, vars, stormVars
<1>. QED
  BY <1>2, <1>3, <1>4, <1>5

LEMMA StormKept ==
    ASSUME TypeOK, TypeOK', \A k \in report : clone[k].st # "none", StormIsNewOrGone, [Next]_vars
    PROVE  StormIsNewOrGone'
<1>1. CASE pc' \notin {"alert", "record"}
  BY <1>1 DEF StormIsNewOrGone
<1>2. CASE Detect /\ pc' = "alert"
  <2>0. /\ at' = now /\ report' = report /\ clone' = clone /\ Range(todo') = LeakStorms(now)
    <3>1. at' = now /\ ToSet(todo') = LeakStorms(now) /\ (LeakStorms(now) # {})
      BY <1>2, Finite, GotoLoop DEF Detect, Goto
    <3>. QED
      BY <1>2, <3>1 DEF Detect, Range, ToSet
  <2>. SUFFICES ASSUME NEW s \in LeakStorms(now)
                PROVE  Cardinality(Newborn(s)' \cup {k \in report' : SigOf[k] = s /\ clone'[k].st = "gone"})
                          >= MinCount
    BY <2>0 DEF StormIsNewOrGone
  <2>. DEFINE P == Newborn(s)' \cup {k \in report' : SigOf[k] = s /\ clone'[k].st = "gone"}
              C == Counted(s, now)
  <2>1. C \subseteq P /\ P \in SUBSET Clone
    BY <2>0 DEF Newborn, Counted, AppearedAt, TypeOK
  <2>2. Cardinality(C) >= MinCount
    BY DEF LeakStorms
  <2>. HIDE DEF C, P
  <2>3. IsFiniteSet(P) /\ IsFiniteSet(C) /\ Cardinality(C) <= Cardinality(P)
    BY <2>1, StormsAssumption, FS_Subset
  <2>4. Cardinality(P) \in Nat /\ Cardinality(C) \in Nat
    BY <2>3, FS_CardinalityType
  <2>5. Cardinality(P) >= MinCount
    BY <2>2, <2>3, <2>4, StormsAssumption
  <2>. QED
    BY <2>5 DEF P
<1>3. CASE pc' \in {"alert", "record"} /\ ~Detect
  <2>1. pc \in {"alert", "record"} /\ UNCHANGED <<report, at>> /\ (todo' = todo \/ todo' = Tail(todo))
    <3>1. CASE Alert \/ Record
      BY <1>3, <3>1 DEF Alert, Record, Onward, Unsent
    <3>. QED
      BY <1>3, <3>1 DEF Next, Tick, Elsewhere, Programs, RunTick, ScanStep, Scan, ScanRepo, ScanCache, ScanDisk,
                        NextCollector, Heuristics, Stay, Goto, ScanLeaks, AutoClean, Kill, Restart, vars, histVars, stormVars
  <2>2. Range(todo') \subseteq Range(todo)
    <3>1. ToSet(Tail(todo)) \subseteq ToSet(todo)
      BY <2>1, TailProps DEF TypeOK
    <3>. QED
      BY <2>1, <3>1 DEF ToSet, Range
  <2>3. ASSUME NEW k \in report
        PROVE  clone'[k].born = clone[k].born /\ (clone[k].st = "gone" => clone'[k].st = "gone")
    BY ClonesOfReport, Zenon
  <2>. QED
    BY <2>1, <2>2, <2>3, StormsStay
<1>. QED
  BY <1>1, <1>2, <1>3 DEF Detect, Goto

LEMMA PaidKept ==
    ASSUME TypeOK, TypeOK', Paid, [Next]_vars
    PROVE  Paid'
<1>0. faults \in Nat /\ (Fault => faults' = faults + 1 /\ faults' >= faults) /\ (faults' = faults => faults' >= faults)
  BY Clocks DEF Fault
<1>1. CASE Alert
  <2>1. pc = "alert" /\ ledger' = ledger /\ (faults' = faults \/ Fault)
    BY <1>1 DEF Alert
  <2>2. CASE Onward /\ told' = told
    BY <1>0, <2>1, <2>2, PaidQuiet DEF Onward
  <2>3. CASE ~(Onward /\ told' = told)
    <3>1. /\ pc' = "record" /\ UNCHANGED <<todo, at>> /\ told' = [told EXCEPT ![Head(todo)] = Append(@, at)]
          /\ (~Muted(Head(todo)) /\ UNCHANGED faults) \/ Fault
      BY <1>1, <2>3 DEF Alert, Unsent
    <3>. QED
      BY <1>0, <2>1, <3>1, PaidSent
  <2>. QED
    BY <2>2, <2>3
<1>2. CASE Record
  <2>1. pc = "record" /\ pc' # "record" /\ told' = told
    BY <1>2 DEF Record, Onward
  <2>2. \/ ledger' = [ledger EXCEPT ![Head(todo)] = at] /\ UNCHANGED faults
        \/ ledger' = ledger /\ faults' = faults + 1
    BY <1>2, <1>0 DEF Record, Fine
  <2>. QED
    BY <2>1, <2>2, PaidWritten
<1>3. CASE Kill
  <2>1. UNCHANGED <<told, ledger>> /\ pc' # "record" /\ Fault
    BY <1>3 DEF Kill
  <2>. QED
    BY <1>0, <2>1, PaidQuiet, PaidWritten
<1>4. CASE UNCHANGED <<told, ledger, pc, todo, at, faults>>
  BY <1>4 DEF Paid, Owes
<1>5. CASE ~(Alert \/ Record \/ Kill) /\ ~UNCHANGED <<told, ledger, pc, todo, at, faults>>
  <2>1. UNCHANGED <<told, ledger>> /\ (faults' = faults \/ Fault)
    <3>1. CASE ScanStep
      BY <3>1 DEF ScanStep, stormVars, Scan, ScanRepo, ScanCache, ScanDisk, NextCollector, Heuristics, Fine, Fail
    <3>. QED
      BY <1>5, <3>1 DEF Next, Tick, Elsewhere, Programs, RunTick, ScanLeaks, AutoClean, Detect, Restart, vars, histVars, stormVars
  <2>2. pc # "record" /\ pc' # "record"
    <3>1. CASE ScanStep
      BY <3>1 DEF ScanStep, Scan, ScanRepo, ScanCache, ScanDisk, NextCollector, Heuristics, Stay, Goto
    <3>2. CASE Elsewhere \/ Programs \/ UNCHANGED vars
      BY <1>5, <3>2 DEF Elsewhere, Programs, vars, histVars, stormVars
    <3>. QED
      BY <1>5, <3>1, <3>2 DEF Next, Tick, RunTick, ScanLeaks, AutoClean, Detect, Goto, Restart
  <2>. QED
    BY <1>0, <2>1, <2>2, PaidQuiet
<1>. QED
  BY <1>1, <1>2, <1>3, <1>4, <1>5
-----------------------------------------------------------------------------
(* Days, and the classes that come back on another one. *)

LEMMA DayMonotone ==
    ASSUME NEW a \in Nat, NEW b \in Nat, a <= b
    PROVE  Day(a) \in Nat /\ Day(b) \in Nat /\ Day(a) <= Day(b)
BY TrendAssumption DEF Day

LEMMA TwoOrMore ==
    ASSUME NEW S, IsFiniteSet(S)
    PROVE  Cardinality(S) >= 2 <=> \E x, y \in S : x # y
<1>1. Cardinality(S) \in Nat
  BY FS_CardinalityType
<1>2. ASSUME NEW x \in S, NEW y \in S, x # y PROVE Cardinality(S) >= 2
  <2>1. IsFiniteSet({x}) /\ Cardinality({x}) = 1
    BY FS_Singleton
  <2>2. IsFiniteSet({x} \cup {y}) /\ Cardinality({x} \cup {y}) = 2
    <3>1. y \notin {x}
      BY <1>2
    <3>. QED
      BY <2>1, <3>1, FS_AddElement
  <2>3. Cardinality({x} \cup {y}) <= Cardinality(S)
    BY FS_Subset
  <2>. QED
    BY <1>1, <2>2, <2>3
<1>3. ASSUME \A x, y \in S : x = y PROVE Cardinality(S) < 2
  <2>1. CASE S = {}
    BY <2>1, FS_EmptySet
  <2>2. ASSUME NEW x \in S PROVE Cardinality(S) < 2
    <3>1. S = {x}
      BY <1>3, <2>2
    <3>2. Cardinality({x}) = 1
      BY FS_Singleton
    <3>. QED
      BY <3>1, <3>2
  <2>. QED
    BY <2>1, <2>2
<1>. QED
  BY <1>1, <1>2, <1>3

(* No more days than occurrences. *)
LEMMA DaysAreFew ==
    ASSUME NEW O, IsFiniteSet(O)
    PROVE  IsFiniteSet(DaysSeen(O)) /\ Cardinality(DaysSeen(O)) <= Cardinality(O)
<1>. DEFINE f == [o \in O |-> Day(o.at)]
<1>1. f \in Surjection(O, DaysSeen(O))
  BY DEF Surjection, DaysSeen
<1>. QED
  BY <1>1, FS_Surjection

(* The rows in the window, and those of a class. *)
Filed(t) ==
    {[sig |-> SigOf[k], target |-> k, at |-> filed[k]]
        : k \in {x \in Clone : filed[x] # None /\ filed[x] >= t - RecurrenceDays}}
OfClass(O, s) == {o \in O : o.sig = s}
Comeback(O, s) ==
    [sig |-> s, days |-> Cardinality(DaysSeen(OfClass(O, s))), hits |-> Cardinality(OfClass(O, s)),
     first |-> Min({o.at : o \in OfClass(O, s)}), last |-> Max({o.at : o \in OfClass(O, s)}),
     targets |-> {o.target : o \in OfClass(O, s)}]
Back(O) == {o.sig : o \in {p \in O : p.sig # None /\ Cardinality(DaysSeen(OfClass(O, p.sig))) >= 2}}

LEMMA ComebacksAre == \A t : GatherRecurrences(t) = {Comeback(Filed(t), s) : s \in Back(Filed(t))}
BY DEF GatherRecurrences, Recurrences, Comeback, Back, OfClass, Filed

LEMMA FiledTypes ==
    ASSUME TypeOK, NEW t
    PROVE  /\ IsFiniteSet(Filed(t))
           /\ \A o \in Filed(t) : o.sig \in Sig /\ o.target \in Clone /\ o.at \in 0..MaxTime
<1>. DEFINE K == {x \in Clone : filed[x] # None /\ filed[x] >= t - RecurrenceDays}
            f == [k \in K |-> [sig |-> SigOf[k], target |-> k, at |-> filed[k]]]
<1>1. IsFiniteSet(K)
  BY StormsAssumption, FS_Subset
<1>2. f \in Surjection(K, Filed(t))
  BY DEF Surjection, Filed
<1>3. IsFiniteSet(Filed(t))
  BY <1>1, <1>2, FS_Surjection
<1>4. \A k \in K : SigOf[k] \in Sig /\ k \in Clone /\ filed[k] \in 0..MaxTime
  BY StormsAssumption DEF TypeOK, Times
<1>. QED
  BY <1>3, <1>4 DEF Filed

LEMMA ClassTypes ==
    ASSUME TypeOK, NEW t, NEW s
    PROVE  /\ IsFiniteSet(OfClass(Filed(t), s)) /\ OfClass(Filed(t), s) \subseteq Filed(t)
           /\ {o.at : o \in OfClass(Filed(t), s)} \in SUBSET (0..MaxTime)
           /\ \A o \in OfClass(Filed(t), s) : o.at \in Nat
<1>1. OfClass(Filed(t), s) \subseteq Filed(t)
  BY DEF OfClass
<1>2. IsFiniteSet(OfClass(Filed(t), s))
  BY <1>1, FiledTypes, FS_Subset
<1>3. \A o \in OfClass(Filed(t), s) : o.at \in 0..MaxTime
  BY <1>1, FiledTypes
<1>. QED
  BY <1>1, <1>2, <1>3, HistoryAssumption

(* A pattern spans two days, and has no more days than occurrences. *)
LEMMA ComebackSpans ==
    ASSUME TypeOK, NEW t, NEW s \in Back(Filed(t))
    PROVE  LET p == Comeback(Filed(t), s) IN Day(p.first) < Day(p.last) /\ p.days <= p.hits
<1>. DEFINE O == OfClass(Filed(t), s)
            T == {o.at : o \in O}
<1>1. /\ IsFiniteSet(O) /\ T \in SUBSET (0..MaxTime) /\ \A o \in O : o.at \in Nat
      /\ MaxTime \in Nat
  BY ClassTypes, HistoryAssumption
<1>2. Cardinality(DaysSeen(O)) >= 2
  BY DEF Back
<1>3. IsFiniteSet(DaysSeen(O)) /\ Cardinality(DaysSeen(O)) <= Cardinality(O)
  BY <1>1, DaysAreFew
<1>4. PICK a \in O, b \in O : Day(a.at) # Day(b.at)
  <2>1. \E x, y \in DaysSeen(O) : x # y
    BY <1>2, <1>3, TwoOrMore
  <2>. QED
    BY <2>1 DEF DaysSeen
<1>5. a.at \in T /\ b.at \in T /\ T # {}
  OBVIOUS
<1>6. Min(T) \in T /\ Max(T) \in T /\ \A x \in T : Min(T) <= x /\ x <= Max(T)
  <2>. HIDE DEF T
  <2>. QED
    BY <1>1, <1>5, MinBounds, MaxBounds
<1>7. Min(T) \in Nat /\ Max(T) \in Nat /\ a.at \in Nat /\ b.at \in Nat
  BY <1>1, <1>6
<1>8. Day(Min(T)) < Day(Max(T))
  <2>. HIDE DEF T
  <2>1. Day(Min(T)) <= Day(a.at) /\ Day(a.at) <= Day(Max(T))
    BY <1>5, <1>6, <1>7, DayMonotone
  <2>2. Day(Min(T)) <= Day(b.at) /\ Day(b.at) <= Day(Max(T))
    BY <1>5, <1>6, <1>7, DayMonotone
  <2>3. /\ Day(Min(T)) \in Nat /\ Day(Max(T)) \in Nat
        /\ Day(a.at) \in Nat /\ Day(b.at) \in Nat
    BY <1>7, DayMonotone
  <2>. QED
    BY <1>4, <2>1, <2>2, <2>3
<1>. QED
  BY <1>3, <1>8 DEF Comeback

(* Two rows of a class on two days make it a pattern. *)
LEMMA TwoDaysComeBack ==
    ASSUME TypeOK, NEW t \in Nat, NEW j \in Clone, NEW k \in Clone,
           filed[j] # None, filed[k] # None, SigOf[j] = SigOf[k], Day(filed[j]) # Day(filed[k]),
           t - RecurrenceDays <= Min({filed[j], filed[k]})
    PROVE  /\ SigOf[k] \in Back(Filed(t))
           /\ {j, k} \subseteq Comeback(Filed(t), SigOf[k]).targets
<1>. DEFINE s == SigOf[k]
            O == OfClass(Filed(t), s)
            row(i) == [sig |-> SigOf[i], target |-> i, at |-> filed[i]]
<1>1. filed[j] \in 0..MaxTime /\ filed[k] \in 0..MaxTime /\ MaxTime \in Nat
  BY HistoryAssumption DEF TypeOK, Times
<1>2. /\ Min({filed[j], filed[k]}) \in {filed[j], filed[k]}
      /\ \A x \in {filed[j], filed[k]} : Min({filed[j], filed[k]}) <= x
  BY <1>1, MinBounds
<1>3. filed[j] >= t - RecurrenceDays /\ filed[k] >= t - RecurrenceDays
  BY <1>1, <1>2, StormsAssumption
<1>4. row(j) \in O /\ row(k) \in O
  BY <1>3 DEF Filed, OfClass
<1>5. Cardinality(DaysSeen(O)) >= 2
  <2>1. IsFiniteSet(DaysSeen(O))
    BY ClassTypes, DaysAreFew
  <2>2. Day(filed[j]) \in DaysSeen(O) /\ Day(filed[k]) \in DaysSeen(O)
    <3>. HIDE DEF O
    <3>. QED
      BY <1>4 DEF DaysSeen
  <2>. QED
    BY <2>1, <2>2, TwoOrMore
<1>6. s \in Back(Filed(t))
  <2>1. row(k) \in Filed(t) /\ row(k).sig = s
    BY <1>3 DEF Filed
  <2>2. s # None
    BY StormsAssumption
  <2>. QED
    BY <1>5, <2>1, <2>2 DEF Back
<1>7. {j, k} \subseteq Comeback(Filed(t), s).targets
  <2>1. row(j).target = j /\ row(k).target = k
    OBVIOUS
  <2>. HIDE DEF row
  <2>. QED
    BY <1>4, <2>1 DEF Comeback
<1>. QED
  BY <1>6, <1>7

LEMMA PatternsAreComebacks == TypeOK => RecurrenceIsComeback
<1>. SUFFICES ASSUME TypeOK PROVE RecurrenceIsComeback
  OBVIOUS
<1>1. now \in Nat
  BY TimesAreNat DEF TypeOK
<1>2. ASSUME NEW p \in GatherRecurrences(now) PROVE Day(p.first) < Day(p.last) /\ p.days <= p.hits
  <2>1. PICK s \in Back(Filed(now)) : p = Comeback(Filed(now), s)
    BY ComebacksAre
  <2>. QED
    BY <2>1, ComebackSpans
<1>3. ASSUME NEW j \in Clone, NEW k \in Clone,
             filed[j] # None, filed[k] # None, SigOf[j] = SigOf[k], Day(filed[j]) # Day(filed[k]),
             now - RecurrenceDays <= Min({filed[j], filed[k]})
      PROVE  \E p \in GatherRecurrences(now) : p.sig = SigOf[k] /\ {j, k} \subseteq p.targets
  <2>1. /\ SigOf[k] \in Back(Filed(now))
        /\ {j, k} \subseteq Comeback(Filed(now), SigOf[k]).targets
    BY <1>1, <1>3, TwoDaysComeBack
  <2>2. Comeback(Filed(now), SigOf[k]) \in GatherRecurrences(now)
    BY <2>1, ComebacksAre
  <2>3. Comeback(Filed(now), SigOf[k]).sig = SigOf[k]
    BY DEF Comeback
  <2>. QED
    BY <2>1, <2>2, <2>3
<1>. QED
  BY <1>2, <1>3 DEF RecurrenceIsComeback
-----------------------------------------------------------------------------
(* The theorems. *)

-----------------------------------------------------------------------------
(* Folds over finite sets. *)

(* What holds of nothing, and of a finite set when it does without some    *)
(* element of it, holds of every subset.                                   *)
LEMMA Descent ==
    ASSUME NEW S, IsFiniteSet(S), NEW B, {} \in B,
           \A s \in SUBSET S : s # {} => \E x \in s : s \ {x} \in B => s \in B
    PROVE  SUBSET S \subseteq B
<1>. DEFINE Bad == (SUBSET S) \ B
<1>1. SUFFICES ASSUME Bad # {} PROVE FALSE
  OBVIOUS
<1>2. Bad \subseteq FiniteSubsetsOf(S)
  BY FS_Subset DEF FiniteSubsetsOf
<1>3. PICK u \in Bad : \A v \in Bad : <<v, u>> \notin StrictSubsetOrdering(S)
  <2>. HIDE DEF Bad
  <2>. QED
    BY <1>1, <1>2, FS_StrictSubsetOrderingWellFounded, WFMin
<1>4. u \in SUBSET S /\ u \notin B /\ u # {}
  OBVIOUS
<1>5. PICK x \in u : u \ {x} \in B => u \in B
  BY <1>4
<1>6. u \ {x} \in Bad
  BY <1>4, <1>5
<1>7. <<u \ {x}, u>> \in StrictSubsetOrdering(S)
  BY <1>4 DEF StrictSubsetOrdering
<1>. QED
  BY <1>3, <1>6, <1>7

(* A fold over a finite set, element by element as c picks them, from base *)
(* on: it has a value at every subset, as of all relations that hold its   *)
(* graph the smallest is a function.                                       *)
Foldable(S, V, base, c, step) ==
    /\ IsFiniteSet(S) /\ base \in V
    /\ \A s \in SUBSET S : s # {} => c[s] \in s
    /\ \A v \in V, x \in S : step[x][v] \in V
Folds(g, S, V, base, c, step) ==
    /\ g \in [SUBSET S -> V]
    /\ \A s \in SUBSET S : g[s] = IF s = {} THEN base ELSE step[c[s]][g[s \ {c[s]}]]

LEMMA FoldExists ==
    ASSUME NEW S, NEW V, NEW base, NEW c, NEW step, Foldable(S, V, base, c, step)
    PROVE  \E g : Folds(g, S, V, base, c, step)
<1>. SUFFICES ASSUME IsFiniteSet(S), base \in V,
                     \A s \in SUBSET S : s # {} => c[s] \in s,
                     \A v \in V, x \in S : step[x][v] \in V
              PROVE  \E g \in [SUBSET S -> V] :
                        \A s \in SUBSET S : g[s] = IF s = {} THEN base ELSE step[c[s]][g[s \ {c[s]}]]
  BY DEF Foldable, Folds
<1>. DEFINE Carries(R) == /\ <<{}, base>> \in R
                        /\ \A s \in SUBSET S, v \in V :
                              s # {} /\ <<s \ {c[s]}, v>> \in R => <<s, step[c[s]][v]>> \in R
            Least == {p \in (SUBSET S) \X V : \A R \in SUBSET ((SUBSET S) \X V) : Carries(R) => p \in R}
            One == {s \in SUBSET S : \E v \in V : <<s, v>> \in Least /\ \A w \in V : <<s, w>> \in Least => w = v}
<1>1. Carries(Least)
  <2>1. <<{}, base>> \in Least
    OBVIOUS
  <2>2. ASSUME NEW s \in SUBSET S, NEW v \in V, s # {}, <<s \ {c[s]}, v>> \in Least
        PROVE  <<s, step[c[s]][v]>> \in Least
    <3>1. step[c[s]][v] \in V /\ c[s] \in S
      BY <2>2
    <3>2. ASSUME NEW R \in SUBSET ((SUBSET S) \X V), Carries(R) PROVE <<s, step[c[s]][v]>> \in R
      BY <2>2, <3>2
    <3>. QED
      BY <3>1, <3>2
  <2>. HIDE DEF Least
  <2>. QED
    BY <2>1, <2>2
<1>2. \A R \in SUBSET ((SUBSET S) \X V) : Carries(R) => Least \subseteq R
  OBVIOUS
<1>3. Least \subseteq (SUBSET S) \X V
  OBVIOUS
<1>4. {} \in One
  <2>. DEFINE R == Least \ {p \in Least : p[1] = {} /\ p[2] # base}
  <2>1. Carries(R)
    <3>. HIDE DEF Least
    <3>1. <<{}, base>> \in R
      BY <1>1
    <3>2. ASSUME NEW s \in SUBSET S, NEW v \in V, s # {}, <<s \ {c[s]}, v>> \in R
          PROVE  <<s, step[c[s]][v]>> \in R
      BY <1>1, <3>2
    <3>. HIDE DEF R
    <3>. QED
      BY <3>1, <3>2
  <2>2. R \in SUBSET ((SUBSET S) \X V)
    BY <1>3
  <2>3. Least \subseteq R
    <3>. HIDE DEF R, Least, Carries
    <3>. QED
      BY <1>2, <2>1, <2>2
  <2>4. \A w \in V : <<{}, w>> \in Least => w = base
    <3>. HIDE DEF Least
    <3>. QED
      BY <2>3
  <2>5. <<{}, base>> \in Least
    <3>. HIDE DEF Least
    <3>. QED
      BY <1>1
  <2>. HIDE DEF Least
  <2>. QED
    BY <2>4, <2>5
<1>5. ASSUME NEW s \in SUBSET S, s # {}, s \ {c[s]} \in One PROVE s \in One
  <2>. HIDE DEF Least
  <2>1. PICK v \in V : /\ <<s \ {c[s]}, v>> \in Least
                       /\ \A w \in V : <<s \ {c[s]}, w>> \in Least => w = v
    BY <1>5
  <2>. DEFINE x == step[c[s]][v]
              R == Least \ {p \in Least : p[1] = s /\ p[2] # x}
  <2>2. x \in V /\ <<s, x>> \in Least
    BY <1>1, <1>5, <2>1
  <2>. HIDE DEF x
  <2>3. Carries(R)
    <3>1. <<{}, base>> \in R
      BY <1>1, <1>5
    <3>2. ASSUME NEW r \in SUBSET S, NEW u \in V, r # {}, <<r \ {c[r]}, u>> \in R
          PROVE  <<r, step[c[r]][u]>> \in R
      <4>1. <<r, step[c[r]][u]>> \in Least
        BY <1>1, <3>2
      <4>2. r = s => u = v
        BY <2>1, <3>2
      <4>. QED
        BY <4>1, <4>2 DEF x
    <3>. HIDE DEF R
    <3>. QED
      BY <3>1, <3>2
  <2>4. R \in SUBSET ((SUBSET S) \X V)
    BY <1>3
  <2>5. Least \subseteq R
    <3>. HIDE DEF R, Carries
    <3>. QED
      BY <1>2, <2>3, <2>4
  <2>6. \A w \in V : <<s, w>> \in Least => w = x
    BY <2>5
  <2>. QED
    BY <2>2, <2>6
<1>6. SUBSET S \subseteq One
  <2>1. \A s \in SUBSET S : s # {} => \E y \in s : s \ {y} \in One => s \in One
    <3>. HIDE DEF One
    <3>. QED
      BY <1>5
  <2>. HIDE DEF One
  <2>. QED
    BY <1>4, <2>1, Descent
<1>. DEFINE g == [s \in SUBSET S |-> CHOOSE v \in V : <<s, v>> \in Least]
<1>7. ASSUME NEW s \in SUBSET S
      PROVE  /\ g[s] \in V /\ <<s, g[s]>> \in Least
             /\ \A w \in V : <<s, w>> \in Least => w = g[s]
  <2>. HIDE DEF Least
  <2>1. PICK v \in V : <<s, v>> \in Least /\ \A w \in V : <<s, w>> \in Least => w = v
    BY <1>6
  <2>. QED
    BY <2>1
<1>8. ASSUME NEW s \in SUBSET S
      PROVE  g[s] = IF s = {} THEN base ELSE step[c[s]][g[s \ {c[s]}]]
  <2>. HIDE DEF Least, g
  <2>1. CASE s = {}
    BY <1>1, <1>7, <2>1
  <2>2. CASE s # {}
    <3>1. /\ g[s \ {c[s]}] \in V /\ <<s \ {c[s]}, g[s \ {c[s]}]>> \in Least
      BY <1>7
    <3>2. step[c[s]][g[s \ {c[s]}]] \in V /\ c[s] \in S
      BY <2>2, <3>1
    <3>3. <<s, step[c[s]][g[s \ {c[s]}]]>> \in Least
      BY <1>1, <2>2, <3>1
    <3>. QED
      BY <1>7, <2>2, <3>2, <3>3
  <2>. QED
    BY <2>1, <2>2
<1>9. g \in [SUBSET S -> V]
  <2>. HIDE DEF Least
  <2>1. \A s \in SUBSET S : (CHOOSE v \in V : <<s, v>> \in Least) \in V
    BY <1>7
  <2>. QED
    BY <2>1
<1>. QED
  <2>. HIDE DEF g
  <2>. QED
    BY <1>8, <1>9

(* Sums over finite sets. *)
Picks(c, S) == IsFiniteSet(S) /\ \A s \in SUBSET S : s # {} => c[s] \in s
Numbers(f, S) == \A x \in S : f[x] \in Int
Sums(g, f, c, S) ==
    g[{}] = 0 /\ \A s \in SUBSET S : s # {} => g[s] = f[c[s]] + g[s \ {c[s]}]

LEMMA SumExists ==
    ASSUME NEW S, NEW c, NEW f, Picks(c, S), Numbers(f, S)
    PROVE  \E g \in [SUBSET S -> Int] : Sums(g, f, c, S)
<1>. SUFFICES ASSUME IsFiniteSet(S), \A s \in SUBSET S : s # {} => c[s] \in s,
                     \A x \in S : f[x] \in Int
              PROVE  \E g \in [SUBSET S -> Int] : Sums(g, f, c, S)
  BY DEF Picks, Numbers
<1>. DEFINE step == [x \in S |-> [v \in Int |-> f[x] + v]]
<1>1. Foldable(S, Int, 0, c, step)
  <2>1. \A v \in Int, x \in S : step[x][v] \in Int
    OBVIOUS
  <2>. HIDE DEF step
  <2>. QED
    BY <2>1 DEF Foldable
<1>2. \E g : Folds(g, S, Int, 0, c, step)
  <2>. HIDE DEF step
  <2>. QED
    BY <1>1, FoldExists
<1>3. PICK g : Folds(g, S, Int, 0, c, step)
  BY <1>2
<1>4. g \in [SUBSET S -> Int] /\ g[{}] = 0
  <2>. HIDE DEF step
  <2>. QED
    BY <1>3 DEF Folds
<1>5. ASSUME NEW s \in SUBSET S, s # {} PROVE g[s] = f[c[s]] + g[s \ {c[s]}]
  <2>1. c[s] \in S /\ g[s \ {c[s]}] \in Int
    BY <1>4, <1>5
  <2>2. g[s] = step[c[s]][g[s \ {c[s]}]]
    <3>. HIDE DEF step
    <3>. QED
      BY <1>3, <1>5 DEF Folds
  <2>. QED
    BY <2>1, <2>2
<1>. QED
  BY <1>4, <1>5 DEF Sums


(* The sum of a function with a finite domain. *)
Picker(S) == [s \in SUBSET S |-> CHOOSE x \in s : TRUE]

LEMMA PickerPicks == ASSUME NEW S, IsFiniteSet(S) PROVE Picks(Picker(S), S)
BY DEF Picks, Picker

LEMMA SumIs ==
    ASSUME NEW f, IsFiniteSet(DOMAIN f), Numbers(f, DOMAIN f)
    PROVE  \E G \in [SUBSET (DOMAIN f) -> Int] :
              Sums(G, f, Picker(DOMAIN f), DOMAIN f) /\ SumFunction(f) = G[DOMAIN f]
<1>. DEFINE S == DOMAIN f
            ch(s) == CHOOSE x \in s : TRUE
            P(g) == g = [s \in SUBSET S |-> IF s = {} THEN 0 ELSE f[ch(s)] + g[s \ {ch(s)}]]
            G == CHOOSE g : P(g)
            c == Picker(S)
<1>1. SumFunction(f) = G[S]
  BY DEF SumFunction, SumFunctionOnSet, FoldFunctionOnSet, MapThenFoldSet
<1>2. Picks(c, S) /\ Numbers(f, S)
  BY PickerPicks
<1>3. \A s \in SUBSET S : c[s] = ch(s)
  BY DEF Picker
<1>4. \E g : P(g)
  <2>1. PICK g \in [SUBSET S -> Int] : Sums(g, f, c, S)
    <3>. HIDE DEF S, c
    <3>. QED
      BY <1>2, SumExists
  <2>. HIDE DEF c, ch, S
  <2>2. \A s \in SUBSET S : g[s] = IF s = {} THEN 0 ELSE f[ch(s)] + g[s \ {ch(s)}]
    BY <2>1, <1>3 DEF Sums
  <2>3. P(g)
    BY <2>2
  <2>. HIDE DEF P
  <2>. QED
    BY <2>3
<1>5. P(G)
  <2>. HIDE DEF P
  <2>. QED
    BY <1>4
<1>6. Sums(G, f, c, S)
  <2>1. \A s \in SUBSET S : G[s] = IF s = {} THEN 0 ELSE f[ch(s)] + G[s \ {ch(s)}]
    <3>. HIDE DEF G, ch, S
    <3>. QED
      BY <1>5
  <2>. HIDE DEF G, ch, S, c, P
  <2>. QED
    BY <2>1, <1>3 DEF Sums
<1>7. G \in [SUBSET S -> Int]
  <2>1. PICK g \in [SUBSET S -> Int] : Sums(g, f, c, S)
    <3>. HIDE DEF S, c
    <3>. QED
      BY <1>2, SumExists
  <2>. DEFINE B == {s \in SUBSET S : G[s] = g[s]}
  <2>2. {} \in B
    <3>. HIDE DEF G, P, c, ch, S
    <3>. QED
      BY <1>6, <2>1 DEF Sums
  <2>3. ASSUME NEW s \in SUBSET S, s # {}, s \ {c[s]} \in B PROVE s \in B
    <3>. HIDE DEF G, P, c, ch, S
    <3>. QED
      BY <1>6, <2>1, <2>3 DEF Sums
  <2>4. \A s \in SUBSET S : s # {} => \E x \in s : s \ {x} \in B => s \in B
    <3>. HIDE DEF B, c, S
    <3>. QED
      BY <1>2, <2>3 DEF Picks
  <2>5. SUBSET S \subseteq B
    <3>. HIDE DEF B, c, S
    <3>. QED
      BY <1>2, <2>2, <2>4, Descent DEF Picks
  <2>6. G = [s \in SUBSET S |-> IF s = {} THEN 0 ELSE f[ch(s)] + G[s \ {ch(s)}]]
    <3>. HIDE DEF G, ch, S
    <3>. QED
      BY <1>5
  <2>. HIDE DEF G, P, ch, c, S
  <2>7. \A s \in SUBSET S : G[s] \in Int
    BY <2>1, <2>5
  <2>. QED
    BY <2>6, <2>7
<1>. QED
  <2>. HIDE DEF G, P, c, S
  <2>8. G \in [SUBSET S -> Int] /\ Sums(G, f, c, S) /\ SumFunction(f) = G[S]
    BY <1>1, <1>6, <1>7
  <2>. QED
    BY <2>8 DEF S, c

(* Two functions over the same days, and the sums of both and of their     *)
(* products over any of these days.                                        *)
Chain(G, f, S) == G \in [SUBSET S -> Int] /\ Sums(G, f, Picker(S), S)
Paired(S, x, y, X, Y, P) ==
    /\ IsFiniteSet(S) /\ DOMAIN x = S /\ Numbers(x, S) /\ Numbers(y, S)
    /\ Chain(X, x, S) /\ Chain(Y, y, S) /\ Chain(P, Products(x, y), S)

(* The last day of s in the order of the sums, and the others.             *)
Peeled(s, i, q, x, y, X, Y, P) ==
    /\ i \in s /\ q = s \ {i} /\ x[i] \in Int /\ y[i] \in Int
    /\ X[q] \in Int /\ Y[q] \in Int /\ P[q] \in Int /\ Cardinality(q) \in Int
    /\ X[s] = x[i] + X[q] /\ Y[s] = y[i] + Y[q] /\ P[s] = x[i] * y[i] + P[q]
    /\ Cardinality(s) = Cardinality(q) + 1

LEMMA ChainStep ==
    ASSUME NEW S, NEW x, NEW y, NEW X, NEW Y, NEW P, Paired(S, x, y, X, Y, P),
           NEW s \in SUBSET S, s # {}
    PROVE  \E i, q : Peeled(s, i, q, x, y, X, Y, P)
<1>. DEFINE i == Picker(S)[s]
<1>1. i \in s /\ i \in S
  BY DEF Picker
<1>2. X[s] = x[i] + X[s \ {i}] /\ Y[s] = y[i] + Y[s \ {i}] /\ P[s] = Products(x, y)[i] + P[s \ {i}]
  BY DEF Paired, Chain, Sums
<1>. HIDE DEF i
<1>3. x[i] \in Int /\ y[i] \in Int /\ Products(x, y)[i] = x[i] * y[i]
  BY <1>1 DEF Paired, Numbers, Products
<1>4. X[s \ {i}] \in Int /\ Y[s \ {i}] \in Int /\ P[s \ {i}] \in Int
  BY DEF Paired, Chain
<1>5. IsFiniteSet(s)
  BY FS_Subset DEF Paired
<1>6. /\ IsFiniteSet(s \ {i}) /\ Cardinality(s \ {i}) = Cardinality(s) - 1
      /\ Cardinality(s \ {i}) \in Nat /\ Cardinality(s) \in Nat
  BY <1>1, <1>5, FS_RemoveElement, FS_CardinalityType
<1>7. Peeled(s, i, s \ {i}, x, y, X, Y, P)
  <2>1. Cardinality(s) = Cardinality(s \ {i}) + 1
    BY <1>6
  <2>. QED
    BY <1>1, <1>2, <1>3, <1>4, <1>6, <2>1 DEF Peeled
<1>. QED
  BY <1>7

(* The products of the distances of (a, b) to the points of s, added up.   *)
Cross(n, a, b, X, Y, P) == n * (a * b) - a * Y - b * X + P
LEMMA CrossStep ==
    ASSUME NEW s, NEW i, NEW q, NEW x, NEW y, NEW X, NEW Y, NEW P, Peeled(s, i, q, x, y, X, Y, P),
           NEW a \in Int, NEW b \in Int
    PROVE  Cross(Cardinality(s), a, b, X[s], Y[s], P[s])
             = Cross(Cardinality(q), a, b, X[q], Y[q], P[q]) + (a - x[i]) * (b - y[i])
<1>1. \A n, u, v, X0, Y0, P0 \in Int :
        (n + 1) * (a * b) - a * (v + Y0) - b * (u + X0) + (u * v + P0)
          = (n * (a * b) - a * Y0 - b * X0 + P0) + (a - u) * (b - v)
  OBVIOUS
<1>. QED
  BY <1>1 DEF Cross, Peeled

LEMMA SpreadStep ==
    ASSUME NEW s, NEW i, NEW q, NEW x, NEW y, NEW X, NEW Y, NEW P, Peeled(s, i, q, x, y, X, Y, P)
    PROVE  Cardinality(s) * P[s] - X[s] * Y[s]
             = Cardinality(q) * P[q] - X[q] * Y[q] + Cross(Cardinality(q), x[i], y[i], X[q], Y[q], P[q])
<1>1. \A n, u, v, X0, Y0, P0 \in Int :
        (n + 1) * (u * v + P0) - (u + X0) * (v + Y0)
          = n * P0 - X0 * Y0 + (n * (u * v) - u * Y0 - v * X0 + P0)
  OBVIOUS
<1>. DEFINE n == Cardinality(q)
            u == x[i]
            v == y[i]
            A == X[q]
            B == Y[q]
            D == P[q]
<1>2. n \in Int /\ u \in Int /\ v \in Int /\ A \in Int /\ B \in Int /\ D \in Int
  BY DEF Peeled
<1>3. Cardinality(s) = n + 1 /\ P[s] = u * v + D /\ X[s] = u + A /\ Y[s] = v + B
  BY DEF Peeled
<1>. HIDE DEF n, u, v, A, B, D
<1>4. Cardinality(s) * P[s] - X[s] * Y[s] = n * D - A * B + (n * (u * v) - u * B - v * A + D)
  BY <1>1, <1>2, <1>3
<1>. QED
  BY <1>4 DEF Cross, n, u, v, A, B, D

LEMMA CrossSign ==
    ASSUME NEW S, NEW x, NEW y, NEW X, NEW Y, NEW P, Paired(S, x, y, X, Y, P),
           NEW a \in Int, NEW b \in Int, NEW r \in SUBSET S
    PROVE  LET C == Cross(Cardinality(r), a, b, X[r], Y[r], P[r])
               T(i) == (a - x[i]) * (b - y[i])
           IN  /\ C \in Int
               /\ (\A i \in r : T(i) >= 0) => C >= 0 /\ ((\E i \in r : T(i) > 0) => C > 0)
               /\ (\A i \in r : T(i) <= 0) => C <= 0 /\ ((\E i \in r : T(i) < 0) => C < 0)
<1>. DEFINE T(i) == (a - x[i]) * (b - y[i])
            C(s) == Cross(Cardinality(s), a, b, X[s], Y[s], P[s])
            Fits(s) ==
                /\ C(s) \in Int
                /\ (\A i \in s : T(i) >= 0) => C(s) >= 0 /\ ((\E i \in s : T(i) > 0) => C(s) > 0)
                /\ (\A i \in s : T(i) <= 0) => C(s) <= 0 /\ ((\E i \in s : T(i) < 0) => C(s) < 0)
            B == {s \in SUBSET S : Fits(s)}
<1>1. {} \in B
  <2>1. Cardinality({}) = 0 /\ X[{}] = 0 /\ Y[{}] = 0 /\ P[{}] = 0
    BY FS_EmptySet DEF Paired, Chain, Sums
  <2>2. C({}) = 0
    BY <2>1 DEF Cross
  <2>. HIDE DEF C, T
  <2>. QED
    BY <2>2
<1>2. ASSUME NEW s \in SUBSET S, s # {} PROVE \E i \in s : s \ {i} \in B => s \in B
  <2>1. PICK i, q : Peeled(s, i, q, x, y, X, Y, P)
    BY <1>2, ChainStep
  <2>2. q = s \ {i} /\ i \in s /\ s = q \cup {i} /\ x[i] \in Int /\ y[i] \in Int
    BY <2>1 DEF Peeled
  <2>3. C(s) = C(q) + T(i)
    BY <2>1, CrossStep
  <2>4. T(i) \in Int
    BY <2>2
  <2>5. ASSUME Fits(q) PROVE Fits(s)
    <3>. HIDE DEF C, T
    <3>. QED
      BY <2>2, <2>3, <2>4, <2>5
  <2>. HIDE DEF Fits
  <2>. QED
    BY <2>2, <2>5
<1>3. SUBSET S \subseteq B
  <2>1. \A s \in SUBSET S : s # {} => \E i \in s : s \ {i} \in B => s \in B
    <3>. HIDE DEF B
    <3>. QED
      BY <1>2
  <2>. HIDE DEF B
  <2>. QED
    BY <1>1, <2>1, Descent DEF Paired
<1>4. Fits(r)
  <2>. HIDE DEF Fits
  <2>. QED
    BY <1>3
<1>. QED
  BY <1>4

(* Chebyshev: the spread of two functions that rise together is positive,  *)
(* if both rise somewhere, and that of opposite ones negative.             *)
LEMMA SpreadSign ==
    ASSUME NEW S, NEW x, NEW y, NEW X, NEW Y, NEW P, Paired(S, x, y, X, Y, P)
    PROVE  LET C == Cardinality(S) * P[S] - X[S] * Y[S]
               T(i, j) == (x[i] - x[j]) * (y[i] - y[j])
           IN  /\ C \in Int
               /\ (\A i, j \in S : T(i, j) >= 0) => C >= 0 /\ ((\E i, j \in S : T(i, j) > 0) => C > 0)
               /\ (\A i, j \in S : T(i, j) <= 0) => C <= 0 /\ ((\E i, j \in S : T(i, j) < 0) => C < 0)
<1>. DEFINE T(i, j) == (x[i] - x[j]) * (y[i] - y[j])
            C(s) == Cardinality(s) * P[s] - X[s] * Y[s]
            Fits(s) ==
                /\ C(s) \in Int
                /\ (\A i, j \in s : T(i, j) >= 0) => C(s) >= 0 /\ ((\E i, j \in s : T(i, j) > 0) => C(s) > 0)
                /\ (\A i, j \in s : T(i, j) <= 0) => C(s) <= 0 /\ ((\E i, j \in s : T(i, j) < 0) => C(s) < 0)
            B == {s \in SUBSET S : Fits(s)}
<1>1. {} \in B
  <2>1. Cardinality({}) = 0 /\ X[{}] = 0 /\ Y[{}] = 0 /\ P[{}] = 0
    BY FS_EmptySet DEF Paired, Chain, Sums
  <2>2. C({}) = 0
    BY <2>1
  <2>. HIDE DEF C, T
  <2>. QED
    BY <2>2
<1>2. ASSUME NEW i \in S, NEW j \in S
      PROVE  T(i, j) \in Int /\ T(j, i) = T(i, j) /\ T(i, i) = 0
  <2>1. x[i] \in Int /\ x[j] \in Int /\ y[i] \in Int /\ y[j] \in Int
    BY DEF Paired, Numbers
  <2>2. \A a, b, u, v \in Int : (a - u) * (b - v) = (u - a) * (v - b)
    OBVIOUS
  <2>. QED
    BY <2>1, <2>2
<1>3. ASSUME NEW s \in SUBSET S, s # {} PROVE \E i \in s : s \ {i} \in B => s \in B
  <2>1. PICK i, q : Peeled(s, i, q, x, y, X, Y, P)
    BY <1>3, ChainStep
  <2>. DEFINE K == Cross(Cardinality(q), x[i], y[i], X[q], Y[q], P[q])
  <2>2. q = s \ {i} /\ i \in s /\ x[i] \in Int /\ y[i] \in Int
    BY <2>1 DEF Peeled
  <2>3. C(s) = C(q) + K
    BY <2>1, SpreadStep
  <2>4. s = q \cup {i} /\ q \in SUBSET S /\ i \in S
    BY <2>2
  <2>5. /\ K \in Int
        /\ (\A j \in q : T(i, j) >= 0) => K >= 0 /\ ((\E j \in q : T(i, j) > 0) => K > 0)
        /\ (\A j \in q : T(i, j) <= 0) => K <= 0 /\ ((\E j \in q : T(i, j) < 0) => K < 0)
    BY <2>2, <2>4, CrossSign
  <2>6. ASSUME Fits(q) PROVE Fits(s)
    <3>. HIDE DEF C, T, K
    <3>1. C(q) \in Int /\ C(s) \in Int
      BY <2>3, <2>5, <2>6
    <3>2. ASSUME \A j, k \in s : T(j, k) >= 0
          PROVE  C(s) >= 0 /\ ((\E j, k \in s : T(j, k) > 0) => C(s) > 0)
      <4>1. C(q) >= 0 /\ K >= 0
        BY <2>4, <2>5, <2>6, <3>2
      <4>2. ASSUME NEW j \in s, NEW k \in s, T(j, k) > 0 PROVE C(q) > 0 \/ K > 0
        <5>1. CASE j \in q /\ k \in q
          BY <2>4, <2>6, <3>2, <4>2, <5>1
        <5>2. CASE j = i /\ k \in q
          BY <2>4, <2>5, <3>2, <4>2, <5>2
        <5>3. CASE k = i /\ j \in q
          BY <1>2, <2>4, <2>5, <3>2, <4>2, <5>3
        <5>4. CASE j = i /\ k = i
          BY <1>2, <2>4, <4>2, <5>4
        <5>. QED
          BY <2>4, <5>1, <5>2, <5>3, <5>4
      <4>. QED
        BY <2>3, <2>5, <3>1, <4>1, <4>2
    <3>3. ASSUME \A j, k \in s : T(j, k) <= 0
          PROVE  C(s) <= 0 /\ ((\E j, k \in s : T(j, k) < 0) => C(s) < 0)
      <4>1. C(q) <= 0 /\ K <= 0
        BY <2>4, <2>5, <2>6, <3>3
      <4>2. ASSUME NEW j \in s, NEW k \in s, T(j, k) < 0 PROVE C(q) < 0 \/ K < 0
        <5>1. CASE j \in q /\ k \in q
          BY <2>4, <2>6, <3>3, <4>2, <5>1
        <5>2. CASE j = i /\ k \in q
          BY <2>4, <2>5, <3>3, <4>2, <5>2
        <5>3. CASE k = i /\ j \in q
          BY <1>2, <2>4, <2>5, <3>3, <4>2, <5>3
        <5>4. CASE j = i /\ k = i
          BY <1>2, <2>4, <4>2, <5>4
        <5>. QED
          BY <2>4, <5>1, <5>2, <5>3, <5>4
      <4>. QED
        BY <2>3, <2>5, <3>1, <4>1, <4>2
    <3>. QED
      BY <3>1, <3>2, <3>3
  <2>. HIDE DEF Fits
  <2>. QED
    BY <2>2, <2>6
<1>4. SUBSET S \subseteq B
  <2>1. \A s \in SUBSET S : s # {} => \E i \in s : s \ {i} \in B => s \in B
    <3>. HIDE DEF B
    <3>. QED
      BY <1>3
  <2>. HIDE DEF B
  <2>. QED
    BY <1>1, <2>1, Descent DEF Paired
<1>5. Fits(S)
  <2>. HIDE DEF Fits
  <2>. QED
    BY <1>4
<1>. QED
  BY <1>5

-----------------------------------------------------------------------------
(* Rates and buckets. *)
(* So is what the code computes of two functions over the days.            *)
LEMMA SpreadIs ==
    ASSUME NEW D, IsFiniteSet(D), NEW x, NEW y, DOMAIN x = D, DOMAIN y = D, Numbers(x, D), Numbers(y, D)
    PROVE  LET T(i, j) == (x[i] - x[j]) * (y[i] - y[j])
           IN  /\ Spread(x, y) \in Int
               /\ (\A i, j \in D : T(i, j) >= 0) =>
                     Spread(x, y) >= 0 /\ ((\E i, j \in D : T(i, j) > 0) => Spread(x, y) > 0)
               /\ (\A i, j \in D : T(i, j) <= 0) =>
                     Spread(x, y) <= 0 /\ ((\E i, j \in D : T(i, j) < 0) => Spread(x, y) < 0)
<1>1. PICK X \in [SUBSET D -> Int] : Sums(X, x, Picker(D), D) /\ SumFunction(x) = X[D]
  BY SumIs
<1>2. PICK Y \in [SUBSET D -> Int] : Sums(Y, y, Picker(D), D) /\ SumFunction(y) = Y[D]
  BY SumIs
<1>3. DOMAIN Products(x, y) = D /\ Numbers(Products(x, y), D)
  BY DEF Products, Numbers
<1>4. PICK P \in [SUBSET D -> Int] :
         Sums(P, Products(x, y), Picker(D), D) /\ SumFunction(Products(x, y)) = P[D]
  <2>. DEFINE p == Products(x, y)
  <2>1. DOMAIN p = D /\ Numbers(p, D)
    BY <1>3
  <2>. HIDE DEF p
  <2>2. \E G \in [SUBSET (DOMAIN p) -> Int] :
            Sums(G, p, Picker(DOMAIN p), DOMAIN p) /\ SumFunction(p) = G[DOMAIN p]
    BY <2>1, SumIs
  <2>. QED
    BY <2>1, <2>2 DEF p
<1>5. Paired(D, x, y, X, Y, P)
  BY <1>1, <1>2, <1>4 DEF Paired, Chain
<1>6. Spread(x, y) = Cardinality(D) * P[D] - X[D] * Y[D]
  BY <1>1, <1>2, <1>4 DEF Spread
<1>. QED
  BY <1>5, <1>6, SpreadSign

Rising(D, y)  == \A d, e \in D : d < e => y[d] <= y[e]
Falling(D, y) == \A d, e \in D : d < e => y[d] >= y[e]

LEMMA SlopeSign ==
    ASSUME NEW D \in SUBSET Int, IsFiniteSet(D), NEW m \in Int, NEW y, DOMAIN y = D, Numbers(y, D)
    PROVE  LET C == Spread([d \in D |-> d - m], y)
           IN  /\ Rising(D, y) => (C > 0 <=> ~Falling(D, y))
               /\ Falling(D, y) => (C < 0 <=> ~Rising(D, y))
<1>. DEFINE x == [d \in D |-> d - m]
            C == Spread(x, y)
            T(i, j) == (x[i] - x[j]) * (y[i] - y[j])
<1>1. DOMAIN x = D /\ Numbers(x, D)
  BY DEF Numbers
<1>2. /\ C \in Int
      /\ (\A i, j \in D : T(i, j) >= 0) => C >= 0 /\ ((\E i, j \in D : T(i, j) > 0) => C > 0)
      /\ (\A i, j \in D : T(i, j) <= 0) => C <= 0 /\ ((\E i, j \in D : T(i, j) < 0) => C < 0)
  <2>. HIDE DEF x
  <2>. QED
    BY <1>1, SpreadIs
<1>3. \A a, b \in Int : /\ a < 0 /\ b <= 0 => a * b >= 0
                        /\ a < 0 /\ b >= 0 => a * b <= 0
                        /\ a > 0 /\ b <= 0 => a * b <= 0
                        /\ a > 0 /\ b >= 0 => a * b >= 0
                        /\ a < 0 /\ b < 0 => a * b > 0
                        /\ a < 0 /\ b > 0 => a * b < 0
                        /\ a = 0 => a * b = 0
  OBVIOUS
<1>4. ASSUME NEW i \in D, NEW j \in D
      PROVE  /\ i < j => x[i] - x[j] < 0
             /\ i > j => x[i] - x[j] > 0
             /\ i = j => x[i] - x[j] = 0
             /\ x[i] - x[j] \in Int /\ y[i] \in Int /\ y[j] \in Int /\ y[i] - y[j] \in Int
             /\ i < j \/ i = j \/ i > j
  BY DEF Numbers
<1>. HIDE DEF x, C
<1>5. Rising(D, y) => \A i, j \in D : T(i, j) >= 0
  <2>. SUFFICES ASSUME Rising(D, y), NEW i \in D, NEW j \in D PROVE T(i, j) >= 0
    OBVIOUS
  <2>1. (i < j => y[i] - y[j] <= 0) /\ (i > j => y[i] - y[j] >= 0)
    BY <1>4 DEF Rising
  <2>. QED
    BY <1>3, <1>4, <2>1
<1>6. Falling(D, y) => \A i, j \in D : T(i, j) <= 0
  <2>. SUFFICES ASSUME Falling(D, y), NEW i \in D, NEW j \in D PROVE T(i, j) <= 0
    OBVIOUS
  <2>1. (i < j => y[i] - y[j] >= 0) /\ (i > j => y[i] - y[j] <= 0)
    BY <1>4 DEF Falling
  <2>. QED
    BY <1>3, <1>4, <2>1
<1>7. ~Falling(D, y) => \E i, j \in D : T(i, j) > 0
  <2>. SUFFICES ASSUME NEW i \in D, NEW j \in D, i < j, ~(y[i] >= y[j]) PROVE T(i, j) > 0
    BY DEF Falling
  <2>1. y[i] - y[j] < 0
    BY <1>4
  <2>. QED
    BY <1>3, <1>4, <2>1
<1>8. ~Rising(D, y) => \E i, j \in D : T(i, j) < 0
  <2>. SUFFICES ASSUME NEW i \in D, NEW j \in D, i < j, ~(y[i] <= y[j]) PROVE T(i, j) < 0
    BY DEF Rising
  <2>1. y[i] - y[j] > 0
    BY <1>4
  <2>. QED
    BY <1>3, <1>4, <2>1
<1>. QED
  <2>. HIDE DEF T
  <2>1. Rising(D, y) => (C > 0 <=> ~Falling(D, y))
    BY <1>2, <1>5, <1>6, <1>7
  <2>2. Falling(D, y) => (C < 0 <=> ~Rising(D, y))
    BY <1>2, <1>5, <1>6, <1>8
  <2>. QED
    BY <2>1, <2>2 DEF C, x

(* Rows and the points of their days. *)
Row == [of : Cache \cup Volume, bytes : Sizes, at : Times]
LastOfDay(s, v) ==
    /\ v \in [DaysSeen(s) -> Sizes]
    /\ \A z \in s : \E w \in s : w.at >= z.at /\ Day(w.at) = Day(z.at) /\ v[Day(z.at)] = w.bytes

LEMMA NewestIn ==
    ASSUME NEW S \in SUBSET Row, S # {}
    PROVE  Newest(S) \in S /\ \A z \in S : z.at <= Newest(S).at
<1>. DEFINE T == {s.at : s \in S}
<1>1. T \in SUBSET (0..MaxTime) /\ T # {} /\ MaxTime \in Nat
  BY HistoryAssumption DEF Times, Row
<1>2. Max(T) \in T /\ \A t \in T : t <= Max(T)
  BY <1>1, MaxBounds
<1>3. PICK s \in S : s.at = Max(T)
  BY <1>2
<1>4. \A z \in S : z.at <= s.at
  BY <1>2, <1>3
<1>. QED
  BY <1>4 DEF Newest

LEMMA OneMoreBucket ==
    ASSUME NEW s \in SUBSET Row, NEW e \in Row, \A x \in s : x.at <= e.at, NEW v, LastOfDay(s, v)
    PROVE  LastOfDay(s \cup {e}, Overwrite(e, v))
<1>. DEFINE w == Overwrite(e, v)
<1>1. DaysSeen(s \cup {e}) = DaysSeen(s) \cup {Day(e.at)}
  BY DEF DaysSeen
<1>2. /\ w \in [DaysSeen(s) \cup {Day(e.at)} -> Sizes] /\ w[Day(e.at)] = e.bytes
      /\ \A d \in DaysSeen(s) : d # Day(e.at) => w[d] = v[d]
  BY DEF Overwrite, LastOfDay, Row
<1>. HIDE DEF w
<1>3. ASSUME NEW z \in s \cup {e}
      PROVE  \E y \in s \cup {e} : y.at >= z.at /\ Day(y.at) = Day(z.at) /\ w[Day(z.at)] = y.bytes
  <2>1. CASE Day(z.at) = Day(e.at)
    <3>1. e.at >= z.at
      BY HistoryAssumption DEF Row, Times
    <3>. QED
      BY <1>2, <2>1, <3>1
  <2>2. CASE Day(z.at) # Day(e.at)
    <3>1. z \in s /\ Day(z.at) \in DaysSeen(s)
      BY <2>2 DEF DaysSeen
    <3>. QED
      BY <1>2, <2>2, <3>1 DEF LastOfDay
  <2>. QED
    BY <2>1, <2>2
<1>. QED
  BY <1>1, <1>2, <1>3 DEF LastOfDay, w

LEMMA BucketIs ==
    ASSUME NEW S \in SUBSET Row, IsFiniteSet(S)
    PROVE  LastOfDay(S, DayBucket(S))
<1>. DEFINE none == [d \in {} |-> 0]
            c(s) == Newest(s)
            P(g) == g = [s \in SUBSET S |-> IF s = {} THEN none ELSE Overwrite(c(s), g[s \ {c(s)}])]
            G == CHOOSE g : P(g)
            C == [s \in SUBSET S |-> c(s)]
            V == UNION {[D -> Sizes] : D \in SUBSET Nat}
            step == [e \in S |-> [v \in V |-> Overwrite(e, v)]]
<1>1. DayBucket(S) = G[S]
  BY DEF DayBucket, MapThenFoldSet
<1>2. \A s \in SUBSET S : s # {} => c(s) \in s /\ \A x \in s : x.at <= c(s).at
  BY NewestIn
<1>3. \E g : P(g)
  <2>1. none \in V
    <3>1. none \in [{} -> Sizes]
      OBVIOUS
    <3>. QED
      BY <3>1
  <2>2. \A s \in SUBSET S : s # {} => C[s] \in s
    <3>. HIDE DEF c
    <3>. QED
      BY <1>2
  <2>3. \A v \in V, e \in S : Overwrite(e, v) \in V
    <3>. SUFFICES ASSUME NEW D \in SUBSET Nat, NEW v \in [D -> Sizes], NEW e \in S PROVE Overwrite(e, v) \in V
      OBVIOUS
    <3>1. e.at \in Nat /\ e.bytes \in Sizes
      BY HistoryAssumption DEF Row, Times
    <3>2. Day(e.at) \in Nat
      BY <3>1, DayMonotone
    <3>3. Overwrite(e, v) \in [D \cup {Day(e.at)} -> Sizes]
      BY <3>1 DEF Overwrite
    <3>. QED
      BY <3>2, <3>3
  <2>4. \A v \in V, e \in S : step[e][v] = Overwrite(e, v)
    <3>. HIDE DEF V
    <3>. QED
      OBVIOUS
  <2>5. PICK g : Folds(g, S, V, none, C, step)
    <3>. HIDE DEF none, C, step, V
    <3>1. Foldable(S, V, none, C, step)
      BY <2>1, <2>2, <2>3, <2>4 DEF Foldable
    <3>. QED
      BY <3>1, FoldExists
  <2>6. \A s \in SUBSET S : s # {} => C[s] = c(s) /\ c(s) \in S /\ s \ {c(s)} \in SUBSET S
    <3>. HIDE DEF c
    <3>. QED
      BY <1>2
  <2>. HIDE DEF none, C, step, V, c
  <2>7. \A s \in SUBSET S : g[s] = IF s = {} THEN none ELSE Overwrite(c(s), g[s \ {c(s)}])
    BY <2>4, <2>5, <2>6 DEF Folds
  <2>8. DOMAIN g = SUBSET S /\ P(g)
    BY <2>5, <2>7 DEF Folds
  <2>. HIDE DEF P
  <2>. QED
    BY <2>8
<1>4. P(G)
  <2>. HIDE DEF P
  <2>. QED
    BY <1>3
<1>5. \A s \in SUBSET S : G[s] = IF s = {} THEN none ELSE Overwrite(c(s), G[s \ {c(s)}])
  <2>. HIDE DEF G, c, none
  <2>. QED
    BY <1>4
<1>. DEFINE B == {s \in SUBSET S : LastOfDay(s, G[s])}
<1>. HIDE DEF G, P, C, step
<1>6. {} \in B
  BY <1>5 DEF LastOfDay, DaysSeen
<1>7. ASSUME NEW s \in SUBSET S, s # {}, s \ {c(s)} \in B PROVE s \in B
  <2>. DEFINE e == c(s)
              r == s \ {e}
  <2>1. e \in s /\ \A x \in s : x.at <= e.at
    BY <1>2, <1>7
  <2>2. G[s] = Overwrite(e, G[r])
    BY <1>5, <1>7
  <2>3. LastOfDay(r, G[r])
    BY <1>7
  <2>. HIDE DEF e
  <2>4. r \in SUBSET Row /\ e \in Row /\ s = r \cup {e} /\ \A x \in r : x.at <= e.at
    BY <2>1
  <2>. HIDE DEF r
  <2>5. LastOfDay(r \cup {e}, Overwrite(e, G[r]))
    BY <2>3, <2>4, OneMoreBucket
  <2>. QED
    BY <2>2, <2>4, <2>5
<1>8. SUBSET S \subseteq B
  <2>1. \A s \in SUBSET S : s # {} => \E x \in s : s \ {x} \in B => s \in B
    <3>. HIDE DEF B, c
    <3>. QED
      BY <1>2, <1>7
  <2>. HIDE DEF B
  <2>. QED
    BY <1>6, <2>1, Descent
<1>. QED
  BY <1>1, <1>8

LEMMA DaysAreNat ==
    ASSUME NEW S \in SUBSET Row, IsFiniteSet(S)
    PROVE  /\ IsFiniteSet(DaysSeen(S)) /\ Day(MaxTime) \in Nat
           /\ DaysSeen(S) \in SUBSET (0..Day(MaxTime))
<1>1. MaxTime \in Nat /\ Day(MaxTime) \in Nat
  BY HistoryAssumption, DayMonotone
<1>2. ASSUME NEW s \in S PROVE Day(s.at) \in 0..Day(MaxTime)
  <2>1. s.at \in Nat /\ s.at <= MaxTime
    BY <1>1 DEF Row, Times
  <2>. QED
    BY <1>1, <2>1, DayMonotone
<1>. QED
  BY <1>1, <1>2, DaysAreFew DEF DaysSeen

(* What the code makes of a series. *)
LEMMA RateIs ==
    ASSUME NEW S \in SUBSET Row, IsFiniteSet(S)
    PROVE  LET T == Trend(S)
               D == DOMAIN T.buckets
           IN  /\ T.fit.ok <=> \E a, b \in S : Day(a.at) # Day(b.at)
               /\ T.fit.ok => T.fit.den > 0 /\ T.fit.window >= 1
               /\ T.fit.ok /\ Rising(D, T.buckets) => (T.fit.num > 0 <=> ~Falling(D, T.buckets))
               /\ T.fit.ok /\ Falling(D, T.buckets) => (T.fit.num < 0 <=> ~Rising(D, T.buckets))
               /\ \A f \in 0..MaxSize : DaysUntilFull(f, T.fit).ok <=> T.fit.num > 0
<1>. DEFINE y == DayBucket(S)
            D == DaysSeen(S)
            fit == LinearFit(y)
<1>1. Trend(S).buckets = y /\ Trend(S).fit = fit
  BY DEF Trend
<1>2. DOMAIN y = D /\ Numbers(y, D)
  <2>1. LastOfDay(S, y) /\ Sizes \subseteq Int
    BY BucketIs, HistoryAssumption DEF Sizes
  <2>. QED
    BY <2>1 DEF LastOfDay, Numbers
<1>3. IsFiniteSet(D) /\ Day(MaxTime) \in Nat /\ D \in SUBSET (0..Day(MaxTime)) /\ D \in SUBSET Int
  BY DaysAreNat
<1>. HIDE DEF y
<1>4. fit.ok <=> \E a, b \in S : Day(a.at) # Day(b.at)
  <2>1. fit.ok <=> ~(Cardinality(D) < 2)
    BY <1>2 DEF LinearFit
  <2>2. Cardinality(D) \in Nat
    BY <1>3, FS_CardinalityType
  <2>3. Cardinality(D) >= 2 <=> \E d, e \in D : d # e
    <3>1. IsFiniteSet(D)
      BY <1>3
    <3>. HIDE DEF D
    <3>2. Cardinality(D) >= 2 <=> \E d, e \in D : d # e
      BY <3>1, TwoOrMore
    <3>. QED
      BY <3>2
  <2>4. (\E d, e \in D : d # e) <=> \E a, b \in S : Day(a.at) # Day(b.at)
    BY DEF DaysSeen
  <2>. HIDE DEF D, fit
  <2>. QED
    BY <2>1, <2>2, <2>3, <2>4
<1>5. ASSUME NEW f \in 0..MaxSize, fit.num \in Int PROVE DaysUntilFull(f, fit).ok <=> fit.num > 0
  <2>. HIDE DEF fit
  <2>. QED
    BY <1>5 DEF DaysUntilFull
<1>6. CASE ~fit.ok
  <2>1. fit.num = 0
    BY <1>6 DEF LinearFit
  <2>. HIDE DEF fit
  <2>. QED
    BY <1>1, <1>4, <1>5, <1>6, <2>1
<1>7. CASE fit.ok
  <2>1. fit.num = SlopeNum(y) /\ fit.den = SlopeDen(y) /\ fit.window = Max(D) - Min(D)
    BY <1>2, <1>7 DEF LinearFit
  <2>2. PICK d \in D, e \in D : d # e
    BY <1>4, <1>7 DEF DaysSeen
  <2>. HIDE DEF D
  <2>3. /\ Min(D) \in D /\ (\A z \in D : Min(D) <= z)
        /\ Max(D) \in D /\ (\A z \in D : z <= Max(D)) /\ Min(D) \in Int
    BY <1>3, <2>2, MinBounds, MaxBounds
  <2>. DEFINE m == Min(D)
              x == [z \in D |-> z - m]
  <2>4. DaysIn(y) = x
    BY <1>2 DEF DaysIn
  <2>. HIDE DEF m
  <2>5. DOMAIN x = D /\ Numbers(x, D) /\ Rising(D, x) /\ ~Falling(D, x) /\ m \in Int
    <3>1. m \in Int /\ d \in Int /\ e \in Int /\ \A z \in D : z \in Int
      BY <1>3, <2>3 DEF m
    <3>2. CASE d < e
      <4>1. ~(x[d] >= x[e])
        BY <3>1, <3>2
      <4>. QED
        BY <3>1, <3>2, <4>1 DEF Numbers, Rising, Falling
    <3>3. CASE e < d
      <4>1. ~(x[e] >= x[d])
        BY <3>1, <3>3
      <4>. QED
        BY <3>1, <3>3, <4>1 DEF Numbers, Rising, Falling
    <3>. QED
      BY <2>2, <3>1, <3>2, <3>3
  <2>6. fit.den > 0
    <3>1. Spread([z \in D |-> z - m], x) > 0
      <4>. HIDE DEF x
      <4>. QED
        BY <1>3, <2>5, SlopeSign
    <3>. QED
      BY <2>1, <2>4, <3>1 DEF SlopeDen
  <2>7. /\ Rising(D, y) => (fit.num > 0 <=> ~Falling(D, y))
        /\ Falling(D, y) => (fit.num < 0 <=> ~Rising(D, y))
    <3>1. fit.num = Spread([z \in D |-> z - m], y)
      BY <2>1, <2>4 DEF SlopeNum
    <3>. HIDE DEF fit
    <3>. QED
      BY <1>2, <1>3, <2>5, <3>1, SlopeSign
  <2>8. fit.num \in Int
    <3>1. fit.num = Spread(x, y)
      BY <2>1, <2>4 DEF SlopeNum
    <3>. HIDE DEF x, fit
    <3>. QED
      BY <1>2, <1>3, <2>5, <3>1, SpreadIs
  <2>9. fit.window >= 1
    <3>1. \A z \in D : z \in Int
      BY <1>3
    <3>. HIDE DEF fit
    <3>. QED
      BY <2>1, <2>2, <2>3, <3>1
  <2>. HIDE DEF fit
  <2>. QED
    BY <1>1, <1>2, <1>4, <1>5, <1>7, <2>6, <2>7, <2>8, <2>9
<1>. QED
  BY <1>6, <1>7

-----------------------------------------------------------------------------
(* Batches. *)

Stamps(S) == {s.at : s \in S}
Heads(T)  == {t \in T : \A z \in T : z < t => t - z > Gap}
Join(s, acc) ==
    [n |-> IF acc.n > 0 /\ s.at - acc.last <= Gap THEN acc.n ELSE acc.n + 1, last |-> s.at]
Batch == [n : Nat, last : Int]

(* As many batches as there are times that none precedes within the gap.   *)
Grouped(s, a) ==
    /\ a \in Batch /\ IsFiniteSet(Heads(Stamps(s))) /\ a.n = Cardinality(Heads(Stamps(s)))
    /\ s = {} => a.n = 0
    /\ s # {} => a.n > 0 /\ a.last \in Stamps(s) /\ \A t \in Stamps(s) : t <= a.last

LEMMA JoinTypes ==
    ASSUME NEW a \in Batch, NEW e \in Row
    PROVE  Join(e, a) \in Batch
<1>1. e.at \in Int
  BY HistoryAssumption DEF Row, Times
<1>. QED
  BY <1>1 DEF Join, Batch

LEMMA OneMoreBatch ==
    ASSUME NEW s \in SUBSET Row, NEW e \in Row, \A x \in s : x.at <= e.at, NEW a, Grouped(s, a)
    PROVE  Grouped(s \cup {e}, Join(e, a))
<1>. DEFINE T == Stamps(s)
            t == e.at
            N == T \cup {t}
            b == Join(e, a)
<1>1. Stamps(s \cup {e}) = N
  BY DEF Stamps
<1>2. b \in Batch /\ b.last = t /\ b.n = IF a.n > 0 /\ t - a.last <= Gap THEN a.n ELSE a.n + 1
  BY JoinTypes DEF Grouped, Join
<1>3. t \in Int /\ Gap \in Nat /\ T \subseteq Int /\ \A z \in T : z <= t
  BY HistoryAssumption DEF Row, Times, Stamps
<1>4. /\ a.n \in Nat /\ a.last \in Int /\ IsFiniteSet(Heads(T)) /\ a.n = Cardinality(Heads(T))
      /\ (s = {} => a.n = 0 /\ T = {})
      /\ (s # {} => a.n > 0 /\ a.last \in T /\ \A z \in T : z <= a.last)
  BY DEF Grouped, Batch, Stamps
<1>. HIDE DEF T, t, b
<1>5. \A z \in T : z \in Heads(N) <=> z \in Heads(T)
  BY <1>3 DEF Heads
<1>6. IsFiniteSet(Heads(N)) /\ b.n = Cardinality(Heads(N)) /\ b.n > 0
  <2>1. CASE s # {} /\ t - a.last <= Gap
    <3>1. Heads(N) = Heads(T)
      <4>1. CASE t = a.last
        <5>1. N = T
          BY <1>4, <2>1, <4>1
        <5>. QED
          BY <5>1
      <4>2. CASE t # a.last
        <5>1. t > a.last /\ a.last \in N
          BY <1>3, <1>4, <2>1, <4>2
        <5>2. t \notin Heads(N)
          BY <1>3, <1>4, <2>1, <5>1 DEF Heads
        <5>3. Heads(N) \subseteq N /\ Heads(T) \subseteq T
          BY DEF Heads
        <5>. QED
          BY <1>5, <5>2, <5>3
      <4>. QED
        BY <4>1, <4>2
    <3>. QED
      BY <1>2, <1>4, <2>1, <3>1
  <2>2. CASE s = {} \/ ~(t - a.last <= Gap)
    <3>1. t \in Heads(N) /\ t \notin T
      <4>1. CASE s = {}
        BY <1>3, <1>4, <4>1 DEF Heads
      <4>2. CASE s # {} /\ ~(t - a.last <= Gap)
        <5>1. \A z \in T : t - z > Gap /\ z # t
          BY <1>3, <1>4, <4>2
        <5>. QED
          BY <1>3, <5>1 DEF Heads
      <4>. QED
        BY <2>2, <4>1, <4>2
    <3>2. Heads(N) = Heads(T) \cup {t} /\ t \notin Heads(T)
      <4>1. Heads(N) \subseteq N /\ Heads(T) \subseteq T
        BY DEF Heads
      <4>. QED
        BY <1>5, <3>1, <4>1
    <3>3. IsFiniteSet(Heads(N)) /\ Cardinality(Heads(N)) = Cardinality(Heads(T)) + 1
      <4>. DEFINE H == Heads(T)
      <4>1. IsFiniteSet(H) /\ t \notin H
        BY <1>4, <3>2
      <4>. HIDE DEF H
      <4>2. IsFiniteSet(H \cup {t}) /\ Cardinality(H \cup {t}) = Cardinality(H) + 1
        BY <4>1, FS_AddElement
      <4>. QED
        BY <3>2, <4>2 DEF H
    <3>4. b.n = a.n + 1
      BY <1>2, <1>4, <2>2
    <3>. QED
      BY <1>4, <3>3, <3>4
  <2>. QED
    BY <2>1, <2>2
<1>7. b.last \in N /\ \A z \in N : z <= b.last
  BY <1>2, <1>3
<1>. QED
  BY <1>1, <1>2, <1>6, <1>7 DEF Grouped, b

LEMMA BatchesAre ==
    ASSUME NEW S \in SUBSET Row, IsFiniteSet(S)
    PROVE  Batches(S, Gap) = Cardinality(Heads(Stamps(S)))
<1>. DEFINE none == [n |-> 0, last |-> 0]
            c(s) == Newest(s)
            P(g) == g = [s \in SUBSET S |-> IF s = {} THEN none ELSE Join(c(s), g[s \ {c(s)}])]
            G == CHOOSE g : P(g)
            C == [s \in SUBSET S |-> c(s)]
            step == [e \in S |-> [a \in Batch |-> Join(e, a)]]
<1>1. Batches(S, Gap) = G[S].n
  BY DEF Batches, MapThenFoldSet, Join
<1>2. \A s \in SUBSET S : s # {} => c(s) \in s /\ \A x \in s : x.at <= c(s).at
  BY NewestIn
<1>3. \E g : P(g)
  <2>1. none \in Batch
    BY DEF Batch
  <2>2. \A s \in SUBSET S : s # {} => C[s] \in s
    <3>. HIDE DEF c
    <3>. QED
      BY <1>2
  <2>3. \A a \in Batch, e \in S : Join(e, a) \in Batch
    BY JoinTypes
  <2>4. \A a \in Batch, e \in S : step[e][a] = Join(e, a)
    OBVIOUS
  <2>5. PICK g : Folds(g, S, Batch, none, C, step)
    <3>. HIDE DEF none, C, step
    <3>1. Foldable(S, Batch, none, C, step)
      BY <2>1, <2>2, <2>3, <2>4 DEF Foldable
    <3>. QED
      BY <3>1, FoldExists
  <2>6. \A s \in SUBSET S : s # {} => C[s] = c(s) /\ c(s) \in S /\ s \ {c(s)} \in SUBSET S
    <3>. HIDE DEF c
    <3>. QED
      BY <1>2
  <2>. HIDE DEF none, C, step, c
  <2>7. \A s \in SUBSET S : g[s] = IF s = {} THEN none ELSE Join(c(s), g[s \ {c(s)}])
    BY <2>4, <2>5, <2>6 DEF Folds
  <2>8. DOMAIN g = SUBSET S /\ P(g)
    BY <2>5, <2>7 DEF Folds
  <2>. HIDE DEF P
  <2>. QED
    BY <2>8
<1>4. P(G)
  <2>. HIDE DEF P
  <2>. QED
    BY <1>3
<1>5. \A s \in SUBSET S : G[s] = IF s = {} THEN none ELSE Join(c(s), G[s \ {c(s)}])
  <2>. HIDE DEF G, c, none
  <2>. QED
    BY <1>4
<1>. DEFINE B == {s \in SUBSET S : Grouped(s, G[s])}
<1>. HIDE DEF G, P, C, step
<1>6. {} \in B
  <2>1. Heads(Stamps({})) = {}
    BY DEF Heads, Stamps
  <2>2. G[{}] = none /\ none \in Batch /\ none.n = 0
    BY <1>5 DEF Batch
  <2>. HIDE DEF none
  <2>. QED
    BY <2>1, <2>2, FS_EmptySet DEF Grouped
<1>7. ASSUME NEW s \in SUBSET S, s # {}, s \ {c(s)} \in B PROVE s \in B
  <2>. DEFINE e == c(s)
              r == s \ {e}
  <2>1. e \in s /\ \A x \in s : x.at <= e.at
    BY <1>2, <1>7
  <2>2. G[s] = Join(e, G[r])
    BY <1>5, <1>7
  <2>3. Grouped(r, G[r])
    BY <1>7
  <2>. HIDE DEF e
  <2>4. r \in SUBSET Row /\ e \in Row /\ s = r \cup {e} /\ \A x \in r : x.at <= e.at
    BY <2>1
  <2>. HIDE DEF r
  <2>5. Grouped(r \cup {e}, Join(e, G[r]))
    BY <2>3, <2>4, OneMoreBatch
  <2>. QED
    BY <2>2, <2>4, <2>5
<1>8. SUBSET S \subseteq B
  <2>1. \A s \in SUBSET S : s # {} => \E x \in s : s \ {x} \in B => s \in B
    <3>. HIDE DEF B, c
    <3>. QED
      BY <1>2, <1>7
  <2>. HIDE DEF B
  <2>. QED
    BY <1>6, <2>1, Descent
<1>9. Grouped(S, G[S])
  BY <1>8
<1>. QED
  BY <1>1, <1>9 DEF Grouped

-----------------------------------------------------------------------------
(* The trends. *)

LEMMA UniqueKept ==
    ASSUME TypeOK, Rows, SamplesAreSpaced, Unique, [Next]_vars
    PROVE  Unique'
<1>1. at \in Nat /\ Throttle \in Nat
  BY Clocks, HistoryAssumption
<1>2. CASE cacheRows' # cacheRows
  <2>. DEFINE n == [of |-> Head(todo), bytes |-> size[Head(todo)], at |-> at]
  <2>1. /\ ScanStep /\ pc = "caches" /\ todo # <<>> /\ cacheRows' \subseteq cacheRows \cup {n}
        /\ diskRows' = diskRows
    BY <1>2, NotScanning, ScanRows DEF tableVars
  <2>2. Head(todo) \in ToSet(todo)
    BY <2>1, TailProps DEF TypeOK
  <2>3. \A s \in cacheRows : s.of = Head(todo) => s.at < at
    BY <2>1, <2>2 DEF Rows
  <2>4. n.of = Head(todo) /\ n.at = at
    OBVIOUS
  <2>. HIDE DEF n
  <2>5. \A s \in cacheRows : s.of = n.of => s.at # n.at
    BY <1>1, <2>3, <2>4
  <2>. QED
    BY <2>1, <2>5 DEF Unique, Single
<1>3. CASE diskRows' # diskRows
  <2>. DEFINE n == [of |-> Head(todo), bytes |-> used[Head(todo)], at |-> at]
  <2>1. /\ ScanStep /\ Recent(Head(todo)) = {} /\ diskRows' \subseteq diskRows \cup {n}
        /\ cacheRows' = cacheRows
    BY <1>3, NotScanning, ScanRows DEF tableVars
  <2>2. n.of = Head(todo) /\ n.at = at
    OBVIOUS
  <2>. HIDE DEF n
  <2>3. \A s \in diskRows : s.of = n.of => ~(s.at >= at - Throttle)
    BY <2>1, <2>2 DEF Recent, DiskSeries
  <2>4. \A s \in diskRows : s.of = n.of => s.at # n.at
    BY <1>1, <2>2, <2>3
  <2>. QED
    BY <2>1, <2>4 DEF Unique, Single
<1>4. CASE UNCHANGED <<cacheRows, diskRows>>
  BY <1>4 DEF Unique, Single
<1>. QED
  BY <1>2, <1>3, <1>4

LEMMA RowsAre ==
    ASSUME TypeOK
    PROVE  /\ cacheRows \cup diskRows \in SUBSET Row /\ IsFiniteSet(cacheRows \cup diskRows)
           /\ \A S \in Series : S \subseteq cacheRows \/ S \subseteq diskRows
<1>1. cacheRows \cup diskRows \in SUBSET Row
  BY DEF TypeOK, Row
<1>2. IsFiniteSet(Row)
  <2>. DEFINE K == Cache \cup Volume
              g == [p \in (K \X Sizes) \X Times |-> [of |-> p[1][1], bytes |-> p[1][2], at |-> p[2]]]
  <2>1. IsFiniteSet(K)
    BY HistoryAssumption, FS_Subset
  <2>2. IsFiniteSet(Sizes) /\ IsFiniteSet(Times)
    <3>1. \A n \in Nat : IsFiniteSet(0..n)
      BY FS_Interval
    <3>. QED
      BY <3>1, HistoryAssumption DEF Sizes, Times
  <2>3. g \in Surjection((K \X Sizes) \X Times, Row)
    <3>1. ASSUME NEW r \in Row PROVE \E p \in (K \X Sizes) \X Times : g[p] = r
      <4>1. <<<<r.of, r.bytes>>, r.at>> \in (K \X Sizes) \X Times
        BY DEF Row
      <4>2. g[<<<<r.of, r.bytes>>, r.at>>] = [of |-> r.of, bytes |-> r.bytes, at |-> r.at]
        BY <4>1
      <4>3. r = [of |-> r.of, bytes |-> r.bytes, at |-> r.at]
        BY DEF Row
      <4>. QED
        BY <4>1, <4>2, <4>3
    <3>2. g \in [(K \X Sizes) \X Times -> Row]
      BY DEF Row
    <3>. HIDE DEF g, K
    <3>. QED
      BY <3>1, <3>2 DEF Surjection
  <2>. HIDE DEF g, K
  <2>4. IsFiniteSet(K \X Sizes)
    BY <2>1, <2>2, FS_Product
  <2>5. IsFiniteSet((K \X Sizes) \X Times)
    BY <2>2, <2>4, FS_Product
  <2>. QED
    BY <2>3, <2>5, FS_Surjection
<1>3. \A S \in Series : S \subseteq cacheRows \/ S \subseteq diskRows
  BY DEF Series, CacheSeries, DiskSeries
<1>. QED
  BY <1>1, <1>2, <1>3, FS_Subset

LEMMA SeriesIs ==
    ASSUME TypeOK, Unique, NEW S \in Series
    PROVE  /\ S \in SUBSET Row /\ IsFiniteSet(S)
           /\ \A a, b \in S : a.at = b.at => a = b
<1>1. S \in SUBSET Row /\ IsFiniteSet(S)
  BY RowsAre, FS_Subset
<1>2. \E k : \A a \in S : a.of = k
  BY DEF Series, CacheSeries, DiskSeries
<1>. QED
  BY <1>1, <1>2, RowsAre DEF Unique, Single

LEMMA BucketsTrue ==
    ASSUME TypeOK, Unique
    PROVE  BucketIsEndOfDay
<1>. SUFFICES ASSUME NEW S \in Series
              PROVE  /\ DOMAIN DayBucket(S) = {Day(s.at) : s \in S}
                     /\ \A s \in S : \/ DayBucket(S)[Day(s.at)] = s.bytes
                                     \/ \E z \in S : Day(z.at) = Day(s.at) /\ z.at > s.at
  BY DEF BucketIsEndOfDay
<1>1. S \in SUBSET Row /\ IsFiniteSet(S) /\ \A a, b \in S : a.at = b.at => a = b
  BY SeriesIs
<1>2. LastOfDay(S, DayBucket(S))
  BY <1>1, BucketIs
<1>. DEFINE b == DayBucket(S)
<1>. HIDE DEF b
<1>3. \A s \in S : s.at \in Nat
  BY <1>1, HistoryAssumption DEF Row, Times
<1>4. DOMAIN b = {Day(s.at) : s \in S}
  BY <1>2 DEF b, LastOfDay, DaysSeen
<1>5. ASSUME NEW s \in S
      PROVE  b[Day(s.at)] = s.bytes \/ \E z \in S : Day(z.at) = Day(s.at) /\ z.at > s.at
  <2>1. PICK w \in S : w.at >= s.at /\ Day(w.at) = Day(s.at) /\ b[Day(s.at)] = w.bytes
    BY <1>2 DEF b, LastOfDay
  <2>2. w.at = s.at \/ w.at > s.at
    BY <1>3, <2>1
  <2>. QED
    BY <1>1, <2>1, <2>2
<1>. QED
  BY <1>4, <1>5 DEF b

LEMMA RatesTrue ==
    ASSUME TypeOK, Unique
    PROVE  RateFollowsGrowth
<1>1. ASSUME NEW S \in Series PROVE S \in SUBSET Row /\ IsFiniteSet(S)
  BY <1>1, SeriesIs
<1>. QED
  BY <1>1, RateIs DEF RateFollowsGrowth, Rising, Falling

LEMMA BatchesTrue ==
    ASSUME TypeOK
    PROVE  BatchesAreGroups
<1>. DEFINE S == ScanTimestamps(now - Lookback)
<1>1. S \in SUBSET Row /\ IsFiniteSet(S)
  BY RowsAre, FS_Subset DEF ScanTimestamps
<1>2. Batches(S, Gap) = Cardinality(Heads(Stamps(S)))
  <2>. HIDE DEF S
  <2>. QED
    BY <1>1, BatchesAre
<1>. QED
  BY <1>2 DEF BatchesAreGroups, ScanDensity, ScanTimestamps, Heads, Stamps

-----------------------------------------------------------------------------
(* The invariant, and the theorems. *)

LEMMA TickInvInit == Init => TickInv
<1>. SUFFICES ASSUME Init PROVE TickInv
  OBVIOUS
<1>1. TypeOK
  BY InitTypes
<1>2. Commits
  <2>1. Start \in Nat /\ 0 <= Start
    BY HistoryAssumption
  <2>. QED
    BY <2>1 DEF Init, HistoryInit, Commits, Settled
<1>3. Rows /\ SamplesAreSpaced /\ Sampled /\ Unique /\ Measured /\ Findings
  BY DEF Init, HistoryInit, Rows, SamplesAreSpaced, Sampled, Unique, Single, Measured, Findings, FindingsAreTrue,
         VelocityIsGrowth, IdleIsQuiet
<1>4. Alerts
  <2>1. \A s \in Sig : told[s] = <<>> /\ ledger[s] = None
    BY DEF Init
  <2>2. Cardinality(Close(<<>>)) = 0
    BY FS_EmptySet DEF Close
  <2>. QED
    BY <2>1, <2>2 DEF Init, HistoryInit, Alerts, MutedByTheTold, StormIsNewOrGone, Paid, Owes
<1>. QED
  BY <1>1, <1>2, <1>3, <1>4 DEF TickInv

LEMMA TickInvHolds == Spec => []TickInv
<1>1. TickInv /\ [Next]_vars => TickInv'
  BY TypesKept, CommitsKept, RowsKept, SpacedKept, SampledKept, UniqueKept, MeasuredKept, FindingsKept, ClonesOfReport,
     MutedKept, StormKept, PaidKept DEF TickInv, Alerts
<1>. QED
  BY <1>1, TickInvInit, PTL DEF Spec

(* The variables of the tick keep their types whatever fails, is killed or *)
(* restarted, and each loop of the scan and of the alerts runs over what   *)
(* it is for (scan/scan.go, cmd/noo-nood/tick.go): no repository is ever   *)
(* measured as a cache, and no step of an alert is taken without a storm.  *)
THEOREM TypeCorrect == Spec => []TypeOK
<1>1. TickInv => TypeOK
  BY DEF TickInv
<1>. QED
  BY <1>1, TickInvHolds, PTL

(* However ticks, failing statements, kills, restarts, auto-clean and the  *)
(* programs that shed clones interleave, and for every window, count and   *)
(* cooldown: two alerts of one signature within the cooldown cost a fault  *)
(* each, only an alert the user got mutes the next, and an alert has       *)
(* MinCount instances behind it that are new or gone                       *)
(* (cmd/noo-nood/tick.go:160-241, heuristics/leaks.go:77-113).             *)
THEOREM AlertsEarned == Spec => []AlertsAreEarned
<1>1. TickInv => AlertsAreEarned
  <2>1. ASSUME TickInv, NEW s \in Sig PROVE Cardinality(Close(told[s])) <= faults
    <3>1. Cardinality(Close(told[s])) \in Nat /\ faults \in Nat
      BY <2>1, ToldTypes, Clocks DEF TickInv
    <3>. QED
      BY <2>1, <3>1 DEF TickInv, Alerts, Paid
  <2>. QED
    BY <2>1 DEF TickInv, Alerts, AlertsAreEarned, AlertsAreSpaced, Close
<1>. QED
  BY <1>1, TickInvHolds, PTL

(* For every throttle and set of volumes: no two samples of a volume are   *)
(* within the throttle of each other, and a scan that failed nowhere has   *)
(* one that recent of every volume (scan/disks.go:47-58).                  *)
THEOREM SamplingRegular == Spec => SamplingIsRegular
<1>1. TickInv /\ [Next]_vars => [SamplesAreSpaced' /\ NoVolumeUnsampled]_vars
  BY SpacedKept, NoneUnsampled DEF TickInv
<1>. QED
  BY <1>1, TickInvHolds, PTL DEF Spec, SamplingIsRegular

(* Whatever happens to repositories, caches and the clock between and in   *)
(* the steps of a scan: a cache the tick says grew was that large against  *)
(* a sample of the window when it measured it, and a repository it says is *)
(* idle had no younger commit checked out when it walked it, as far as a   *)
(* loose object dates one; packed commits and other branches are not       *)
(* claimed (cache_velocity.go:26-51, idle_repos.go:12-49, repos.go:85-158).*)
THEOREM FindingsTrue == Spec => []FindingsAreTrue
<1>1. TickInv => FindingsAreTrue
  BY DEF TickInv, Findings
<1>. QED
  BY <1>1, TickInvHolds, PTL

(* For every window, gap and length of a day, whatever the machine, the    *)
(* scans and their failures have left in the tables: a day's point is the  *)
(* last sample of the day; a rate is given from two days on, its           *)
(* denominator is positive ("denom == 0 ... cannot happen after DayBucket")*)
(* and it has the sign of the growth when all days agree on one; batches   *)
(* are the groups of samples no gap divides; a recurring pattern is a      *)
(* class that was filed on two days at least, never a burst within one,    *)
(* and every class filed twice in the window on different days is one      *)
(* (trend.go:36-231, trends_cmd.go:132-230, status_cmd.go:196-306).        *)
THEOREM TrendsTrue == Spec => []TrendsAreTrue
<1>1. TickInv => TrendsAreTrue
  BY BucketsTrue, RatesTrue, BatchesTrue, PatternsAreComebacks DEF TickInv, TrendsAreTrue
<1>. QED
  BY <1>1, TickInvHolds, PTL
=============================================================================
