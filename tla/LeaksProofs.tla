---------------------------- MODULE LeaksProofs ----------------------------
(***************************************************************************)
(* The leaks module for any trees, programs, sweepers and gates: its types,*)
(* launch causality (the clone of a running instance is born with it), that*)
(* nothing is removed but what every fact of its rule has condemned since  *)
(* the sweeper turned to it, that the sizes it reports are those of the    *)
(* blocks the trees occupy, and that a family's handle finds the family.   *)
(***************************************************************************)
EXTENDS LeakReport, TLAPS, FiniteSetTheorems, WellFoundedInduction, SequenceTheorems

(* A running instance and its clone.                                       *)
Causality ==
    \A p \in Proc :
        /\ proc[p].exe => proc[p].run /\ proc[p].clone # None
        /\ proc[p].clone # None =>
              /\ Kind[proc[p].clone] = "clone" /\ proc[p].clone \in there \cup gone
              /\ proc[p].start <= born[proc[p].clone]
              /\ born[proc[p].clone] <= proc[p].start + Delay

(* What a sweeper has read of the tree at hand was so since it turned to   *)
(* it.                                                                     *)
BeforeAge(t)   == IF Kind[t] = "session" THEN {"dead"} ELSE {}
BeforeProbe(t) == BeforeAge(t) \cup (IF Kind[t] = "clone" THEN {} ELSE {"quiet"})
                    \cup (IF Kind[t] = "member" THEN {"plain"} ELSE {})
Evidence ==
    \A s \in Sweeper :
        /\ job[s].at = "session" => Kind[Of(s)] = "session"
        /\ job[s].at = "age" => Kind[Of(s)] # "clone" /\ BeforeAge(Of(s)) \subseteq seen[s]
        /\ job[s].at = "probe" => BeforeProbe(Of(s)) \subseteq seen[s]
        /\ job[s].at = "causal" => Kind[Of(s)] = "clone"
        /\ job[s].at = "remove" => \E P \in Proof[Of(s)] : P \subseteq seen[s]

LeaksInv == TypeOK /\ Causality /\ Evidence

-----------------------------------------------------------------------------
(* A bounded, inhabited set of numbers has a greatest element: of the sets *)
(* of the numbers above each of its elements one is the smallest.          *)
LEMMA MaxBounds ==
    ASSUME NEW n \in Nat, NEW S \in SUBSET (0..n), S # {}
    PROVE  Max(S) \in S /\ \A x \in S : x <= Max(S)
<1>. DEFINE Above(x) == {y \in 0..n : y > x}
            T == {Above(x) : x \in S}
<1>1. IsFiniteSet(0..n)
  BY FS_Interval
<1>2. \A x \in S : Above(x) \in SUBSET (0..n) /\ IsFiniteSet(Above(x))
  BY <1>1, FS_Subset
<1>3. T \subseteq FiniteSubsetsOf(0..n) /\ T # {}
  BY <1>2 DEF FiniteSubsetsOf
<1>4. PICK u \in T : \A v \in T : <<v, u>> \notin StrictSubsetOrdering(0..n)
  <2>. HIDE DEF T
  <2>. QED
    BY <1>3, FS_StrictSubsetOrderingWellFounded, WFMin
<1>5. PICK m \in S : u = Above(m)
  OBVIOUS
<1>6. ASSUME NEW x \in S, x > m PROVE FALSE
  <2>1. Above(x) \subseteq Above(m) /\ x \in Above(m) /\ x \notin Above(x)
    BY <1>6
  <2>2. <<Above(x), Above(m)>> \in StrictSubsetOrdering(0..n)
    BY <1>2, <2>1 DEF StrictSubsetOrdering
  <2>. QED
    BY <1>4, <1>5, <2>2
<1>7. \A x \in S : m >= x
  BY <1>6
<1>. QED
  BY <1>7 DEF Max

-----------------------------------------------------------------------------
(* The types. *)

JobType == [at : Labels, todo : SUBSET (Tree \cup {Fam}),
            rest : SUBSET Of_("member"), tree : Tree \cup {None}]
Placed(j) == j.tree = None <=> j.at \in {"idle", "next", "member"}
JobOK == /\ job \in [Sweeper -> JobType]
         /\ \A s \in Sweeper : Placed(job[s])

ProcType == [run : BOOLEAN, start : 0..now, clone : Tree \cup {None}, exe : BOOLEAN]

WorldOK ==
    /\ now \in 0..MaxTime /\ there \subseteq Tree /\ gone \subseteq Tree \ there
    /\ born \in [Tree -> 0..now] /\ mtime \in [Tree -> 0..now]
    /\ held \subseteq there /\ alive \subseteq Of_("session") \cap there
    /\ special \subseteq Siblings
    /\ proc \in [Proc -> ProcType]

Counters == faults \in 0..MaxFaults /\ user \in 0..MaxUser

LEMMA TypeParts ==
    /\ TypeOK <=> WorldOK /\ JobOK /\ Counters /\ seen \in [Sweeper -> SUBSET Fact]
    /\ TypeOK' <=> WorldOK' /\ JobOK' /\ Counters' /\ seen' \in [Sweeper -> SUBSET Fact]
BY DEF TypeOK, WorldOK, JobOK, Counters, JobType, Placed, Of, ProcType, Siblings

LEMMA JobUpdate ==
    ASSUME JobOK, NEW s \in Sweeper, NEW j \in JobType, Placed(j),
           job' = [job EXCEPT ![s] = j]
    PROVE  JobOK'
BY DEF JobOK

(* Who leaves a tree turns to a member, a target or nothing.               *)
LEMMA AfterTypes ==
    ASSUME NEW j \in JobType
    PROVE  /\ After(j) \in JobType /\ Placed(After(j)) /\ After(j).tree = None
           /\ After(j).at \in {"idle", "next", "member"}
<1>. DEFINE l == IF j.rest # {} THEN "member" ELSE IF j.todo # {} THEN "next" ELSE "idle"
<1>1. l \in {"idle", "next", "member"} /\ l \in Labels
  BY DEF Labels
<1>2. After(j) = [j EXCEPT !.tree = None, !.at = l]
  BY DEF After
<1>. HIDE DEF l
<1>. QED
  BY <1>1, <1>2 DEF JobType, Placed

LEMMA NoJobType == NoJob \in JobType /\ Placed(NoJob)
BY DEF NoJob, JobType, Placed, Labels

LEMMA LeaveTypes ==
    ASSUME JobOK, NEW s \in Sweeper, Leave(s)
    PROVE  JobOK' /\ job'[s].at \in {"idle", "next", "member"}
<1>1. job[s] \in JobType
  BY DEF JobOK
<1>. QED
  BY <1>1, AfterTypes, JobUpdate DEF Leave, JobOK

LEMMA GotoTypes ==
    ASSUME JobOK, NEW s \in Sweeper, NEW l \in Labels \ {"idle", "next", "member"},
           Of(s) # None, Goto(s, l)
    PROVE  JobOK'
<1>1. [job[s] EXCEPT !.at = l] \in JobType /\ Placed([job[s] EXCEPT !.at = l])
  BY DEF JobOK, JobType, Placed, Of
<1>2. job' = [job EXCEPT ![s] = [job[s] EXCEPT !.at = l]]
  BY DEF JobOK, Goto
<1>. QED
  BY <1>1, <1>2, JobUpdate

(* What a sweeper does with its own line. *)
Leaves(s)      == job'[s].at \in {"idle", "next", "member"}
Moves(s, l, m) == job[s].at = l /\ job'[s].at = m /\ job'[s].tree = job[s].tree
Turns(s) ==
    \E t \in there :
        /\ job'[s].tree = t
        /\ \/ job'[s].at = First(t)
           \/ job'[s].at = "age" /\ Kind[t] = "member"

(* The tree of a sweeper changes when it turns to one or leaves it.        *)
LEMMA TurnTypes ==
    ASSUME TypeOK, NEW s \in Sweeper, Scan(s) \/ Turn(s) \/ Member(s)
    PROVE  JobOK' /\ (Leaves(s) \/ Turns(s))
<1>0. JobOK /\ WorldOK /\ job[s] \in JobType
  BY TypeParts DEF JobOK
<1>1. CASE Scan(s)
  <2>1. Planned \subseteq Tree \cup {Fam}
    BY <1>0 DEF Planned, Hits, WorldOK
  <2>. DEFINE j == [at |-> "next", todo |-> Planned, rest |-> {}, tree |-> None]
  <2>2. j \in JobType /\ Placed(j) /\ job' = [job EXCEPT ![s] = j]
    BY <1>1, <2>1 DEF JobType, Placed, Labels, Scan
  <2>. HIDE DEF j
  <2>3. JobOK'
    BY <1>0, <2>2, JobUpdate
  <2>. QED
    BY <1>0, <1>1, <2>3 DEF Leaves, Scan, JobOK
<1>2. CASE Turn(s)
  <2>1. PICK x \in job[s].todo :
          LET j == [job[s] EXCEPT !.todo = @ \ {x}] IN
          job' = [job EXCEPT ![s] =
             IF x = Fam THEN After([j EXCEPT !.rest =
                                IF Cardinality(Siblings) >= MinMembers THEN Siblings ELSE {}])
             ELSE IF x \notin there THEN After(j)
             ELSE [j EXCEPT !.tree = x, !.at = First(x)]]
    BY <1>2 DEF Turn
  <2>. DEFINE j == [job[s] EXCEPT !.todo = @ \ {x}]
              k == [j EXCEPT !.rest = IF Cardinality(Siblings) >= MinMembers THEN Siblings ELSE {}]
              m == [j EXCEPT !.tree = x, !.at = First(x)]
  <2>2. j \in JobType
    BY <1>0 DEF JobType
  <2>3. job' = [job EXCEPT ![s] = IF x = Fam THEN After(k) ELSE IF x \notin there THEN After(j) ELSE m]
    BY <2>1
  <2>. HIDE DEF j
  <2>4. k \in JobType
    BY <2>2 DEF JobType, Siblings
  <2>5. ASSUME x \in there PROVE m \in JobType /\ Placed(m) /\ m.tree = x /\ m.at = First(x)
    <3>1. First(x) \in Labels \ {"idle", "next", "member"} /\ x \in Tree /\ x # None
      BY <1>0, <2>5, LeaksAssumption DEF First, Labels, WorldOK
    <3>. QED
      BY <2>2, <3>1 DEF JobType, Placed
  <2>. HIDE DEF k, m
  <2>6. CASE job' = [job EXCEPT ![s] = After(k)] \/ job' = [job EXCEPT ![s] = After(j)]
    BY <1>0, <2>2, <2>4, <2>6, AfterTypes, JobUpdate DEF Leaves, JobOK
  <2>7. CASE x \in there /\ job' = [job EXCEPT ![s] = m]
    BY <1>0, <2>5, <2>7, JobUpdate DEF Turns, JobOK
  <2>. QED
    BY <2>3, <2>6, <2>7
<1>3. CASE Member(s)
  <2>1. PICK t \in job[s].rest :
          LET j == [job[s] EXCEPT !.rest = @ \ {t}] IN
          job' = [job EXCEPT ![s] = IF t \notin there THEN After(j)
                                    ELSE [j EXCEPT !.tree = t, !.at = "age"]]
    BY <1>3 DEF Member
  <2>. DEFINE j == [job[s] EXCEPT !.rest = @ \ {t}]
              m == [j EXCEPT !.tree = t, !.at = "age"]
  <2>2. j \in JobType /\ t \in Tree /\ t # None /\ Kind[t] = "member"
    BY <1>0, LeaksAssumption DEF JobType, Of_
  <2>3. job' = [job EXCEPT ![s] = IF t \notin there THEN After(j) ELSE m]
    BY <2>1
  <2>. HIDE DEF j
  <2>4. m \in JobType /\ Placed(m) /\ m.tree = t /\ m.at = "age"
    BY <2>2 DEF JobType, Placed, Labels
  <2>. HIDE DEF m
  <2>5. CASE t \notin there
    BY <1>0, <2>2, <2>3, <2>5, AfterTypes, JobUpdate DEF Leaves, JobOK
  <2>6. CASE t \in there
    BY <1>0, <2>2, <2>3, <2>4, <2>6, JobUpdate DEF Turns, JobOK
  <2>. QED
    BY <2>5, <2>6
<1>. QED
  BY <1>1, <1>2, <1>3

(* What a sweeper reads of the tree at hand, the world standing still.     *)
Reads(s) ==
    /\ UNCHANGED world
    /\ \/ Moves(s, "session", "age")  /\ Of(s) \notin alive
       \/ Moves(s, "age", "probe")    /\ Plain(Of(s)) /\ OldEnough(Of(s))
       \/ Moves(s, "probe", "remove") /\ Rows(Of(s)) = {}
       \/ Moves(s, "probe", "causal") /\ Kind[Of(s)] = "clone"
       \/ Moves(s, "causal", "remove") /\ CausalStale(Rows(Of(s)), born[Of(s)])

LEMMA SweepJobs ==
    ASSUME TypeOK, NEW s \in Sweeper, Sweep(s)
    PROVE  JobOK' /\ (Leaves(s) \/ (Turns(s) /\ UNCHANGED world) \/ Reads(s))
<1>0. JobOK /\ job[s] \in JobType
  BY TypeParts DEF JobOK
<1>1. CASE Scan(s) \/ Turn(s) \/ Member(s)
  <2>1. UNCHANGED world
    BY <1>1 DEF Scan, Turn, Member, Frame
  <2>. QED
    BY <1>1, <2>1, TurnTypes
<1>2. CASE Leave(s)
  BY <1>0, <1>2, LeaveTypes DEF Leaves
<1>3. ASSUME ~Leave(s), Session(s) \/ Age(s) \/ Probe(s) \/ Causal(s)
      PROVE  JobOK' /\ Reads(s)
  <2>1. /\ UNCHANGED world
        /\ \/ job[s].at = "session" /\ Goto(s, "age") /\ Of(s) \notin alive
           \/ job[s].at = "age" /\ Goto(s, "probe") /\ Plain(Of(s)) /\ OldEnough(Of(s))
           \/ job[s].at = "probe" /\ Goto(s, "remove") /\ Rows(Of(s)) = {}
           \/ job[s].at = "probe" /\ Goto(s, "causal") /\ Kind[Of(s)] = "clone"
           \/ job[s].at = "causal" /\ Goto(s, "remove")
                                   /\ CausalStale(Rows(Of(s)), born[Of(s)])
    BY <1>3 DEF Session, Age, Probe, Causal, Read, At, Frame
  <2>2. ASSUME NEW l \in {"session", "age", "probe", "causal"}, job[s].at = l,
               NEW m \in {"age", "probe", "causal", "remove"}, Goto(s, m)
        PROVE  JobOK' /\ Moves(s, l, m)
    <3>1. Of(s) # None /\ m \in Labels \ {"idle", "next", "member"}
      BY <1>0, <2>2 DEF JobOK, Placed, Of, Labels
    <3>2. JobOK'
      BY <1>0, <2>2, <3>1, GotoTypes
    <3>. QED
      BY <1>0, <2>2, <3>2 DEF Goto, JobType, JobOK, Moves
  <2>. QED
    BY <2>1, <2>2 DEF Reads
<1>. QED
  BY <1>1, <1>2, <1>3 DEF Sweep, Remove

LEMMA InsideThere ==
    ASSUME TypeOK, NEW t \in Tree
    PROVE  Inside(t) \subseteq Tree /\ \A x \in Inside(t) \ {t} : Kind[x] = "entry"
BY LeaksAssumption DEF TypeOK, Inside

LEMMA SweepWorld ==
    ASSUME TypeOK, NEW s \in Sweeper, Sweep(s)
    PROVE  WorldOK' /\ Counters' /\ (UNCHANGED world \/ Remove(s))
<1>0. WorldOK /\ Counters
  BY TypeParts
<1>1. CASE Frame
  BY <1>0, <1>1 DEF Frame, world, WorldOK, Counters, ProcType, Siblings
<1>2. CASE Remove(s)
  <2>1. Of(s) \in Tree
    BY <1>2 DEF Remove, At, TypeOK, Of
  <2>2. Inside(Of(s)) \cap Of_("session") \subseteq {Of(s)} /\ Of(s) \in Inside(Of(s))
    BY <2>1, InsideThere DEF Of_, Inside
  <2>3. Inside(Of(s)) \cap Of_("member") \subseteq {Of(s)}
    BY <2>1, InsideThere DEF Of_
  <2>4. special' \subseteq Siblings'
    BY <1>0, <1>2, <2>3 DEF Remove, WorldOK, Siblings, Of_
  <2>. QED
    BY <1>0, <1>2, <2>1, <2>2, <2>4 DEF Remove, WorldOK, Counters, ProcType
<1>. QED
  BY <1>1, <1>2 DEF Sweep, Scan, Turn, Member, Session, Age, Probe, Causal, Read, Frame

Program == \/ \E p \in Proc : Launch(p) \/ Exec(p) \/ Quit(p) \/ \E t \in Tree : MakeClone(p, t)
           \/ \E t \in Tree : Write(t) \/ OpenOrClose(t) \/ EndOrResume(t) \/ Mint(t) \/ BindOrUnlink(t)

LEMMA ProgramTypes ==
    ASSUME TypeOK, Program, now' = now, gone' = gone PROVE WorldOK'
<1>0. WorldOK
  BY TypeParts
<1>. USE LeaksAssumption
<1>1. ASSUME NEW p \in Proc, Launch(p) PROVE WorldOK'
  BY <1>0, <1>1 DEF Launch, WorldOK, ProcType, Siblings
<1>2. ASSUME NEW p \in Proc, Exec(p) PROVE WorldOK'
  <2>1. proc[p] \in ProcType
    BY <1>0 DEF WorldOK
  <2>2. [proc[p] EXCEPT !.exe = TRUE] \in ProcType /\ ProcType' = ProcType
    BY <2>1 DEF ProcType
  <2>3. proc' = [proc EXCEPT ![p] = [proc[p] EXCEPT !.exe = TRUE]]
    BY <1>2 DEF Exec
  <2>4. proc' \in [Proc -> ProcType']
    BY <1>0, <2>2, <2>3 DEF WorldOK
  <2>. QED
    BY <1>0, <1>2, <2>4 DEF Exec, WorldOK, Siblings
<1>3. ASSUME NEW p \in Proc, Quit(p) PROVE WorldOK'
  BY <1>0, <1>3 DEF Quit, WorldOK, ProcType, NoProc, Siblings
<1>4. ASSUME NEW p \in Proc, NEW t \in Tree, MakeClone(p, t) PROVE WorldOK'
  BY <1>0, <1>4 DEF MakeClone, WorldOK, ProcType, Siblings
<1>5. ASSUME NEW t \in Tree, Write(t) \/ OpenOrClose(t) \/ EndOrResume(t) \/ Mint(t) \/ BindOrUnlink(t)
      PROVE  WorldOK'
  BY <1>0, <1>5 DEF Write, OpenOrClose, EndOrResume, Mint, BindOrUnlink, WorldOK, ProcType, Of_, Siblings
<1>. QED
  BY <1>1, <1>2, <1>3, <1>4, <1>5 DEF Program

LEMMA TickTypes ==
    ASSUME TypeOK, Tick PROVE WorldOK'
<1>1. WorldOK /\ now' \in 0..MaxTime /\ now <= now'
  BY TypeParts, LeaksAssumption DEF Tick, WorldOK
<1>2. 0..now \subseteq 0..now'
  BY <1>1, LeaksAssumption DEF WorldOK
<1>. QED
  BY <1>1, <1>2 DEF Tick, WorldOK, ProcType, Siblings

LEMMA TypesKept == TypeOK /\ [Next]_vars => TypeOK'
<1>1. ASSUME TypeOK, UNCHANGED vars PROVE TypeOK'
  BY <1>1 DEF TypeOK, vars, world, Of, Siblings
<1>2. ASSUME TypeOK, Next PROVE TypeOK'
  <2>0. WorldOK /\ JobOK /\ Counters
    BY <1>2, TypeParts
  <2>1. seen' \in [Sweeper -> SUBSET Fact]
    <3>1. ASSUME NEW t \in Tree PROVE Holds(t)' \subseteq Fact
      BY DEF Holds
    <3>. QED
      BY <1>2, <3>1 DEF Next, Watch, TypeOK
  <2>2. ASSUME NEW s \in Sweeper, Sweep(s) PROVE WorldOK' /\ JobOK' /\ Counters'
    BY <1>2, <2>2, SweepWorld, SweepJobs
  <2>3. ASSUME NEW s \in Sweeper, Fail(s) PROVE WorldOK' /\ JobOK' /\ Counters'
    <3>1. JobOK'
      BY <2>0, <2>3, LeaveTypes, JobUpdate, NoJobType DEF Fail
    <3>. QED
      BY <2>0, <2>3, <3>1, LeaksAssumption DEF Fail, world, WorldOK, Counters, ProcType, Siblings
  <2>4. ASSUME Programs PROVE WorldOK' /\ JobOK' /\ Counters'
    <3>1. WorldOK'
      BY <1>2, <2>4, ProgramTypes DEF Programs, Program
    <3>. QED
      BY <2>0, <2>4, <3>1, LeaksAssumption DEF Programs, JobOK, Counters
  <2>5. ASSUME Tick PROVE WorldOK' /\ JobOK' /\ Counters'
    <3>1. WorldOK'
      BY <1>2, <2>5, TickTypes
    <3>. QED
      BY <2>0, <2>5, <3>1 DEF Tick, JobOK, Counters
  <2>6. WorldOK' /\ JobOK' /\ Counters'
    BY <1>2, <2>2, <2>3, <2>4, <2>5 DEF Next
  <2>. QED
    BY <2>1, <2>6, TypeParts
<1>. QED
  BY <1>1, <1>2

LEMMA InitTypes == Init => TypeOK
<1>. SUFFICES ASSUME Init PROVE TypeOK
  OBVIOUS
<1>1. JobOK
  BY NoJobType DEF Init, JobOK
<1>2. now \in 0..MaxTime /\ there \subseteq Tree /\ gone \subseteq Tree \ there
      /\ born \in [Tree -> 0..now] /\ mtime \in [Tree -> 0..now]
      /\ held \subseteq there /\ alive \subseteq Of_("session") \cap there
      /\ special \subseteq Siblings
  BY LeaksAssumption DEF Init, Siblings
<1>3. proc \in [Proc -> ProcType]
  <2>1. NoProc \in ProcType
    BY <1>2 DEF ProcType, NoProc
  <2>2. \A st \in 0..Start, c \in Of_("clone") \cap there :
           [run |-> TRUE, start |-> st, clone |-> c, exe |-> TRUE] \in ProcType
    BY <1>2 DEF ProcType, Init
  <2>. QED
    BY <2>1, <2>2 DEF Init
<1>4. Counters /\ seen \in [Sweeper -> SUBSET Fact]
  BY LeaksAssumption DEF Init, Counters
<1>. QED
  BY <1>1, <1>2, <1>3, <1>4, TypeParts DEF WorldOK

(* Whatever programs and sweepers do, every variable keeps its type: what  *)
(* was removed is gone, what is open or alive exists, no tree is younger   *)
(* than the clock, and a family's members alone are removed one by one     *)
(* (leaks/module.go:141-207, family.go:337-411).                           *)
THEOREM TypeCorrect == Spec => []TypeOK
BY InitTypes, TypesKept, PTL DEF Spec

-----------------------------------------------------------------------------
(* Launch causality. *)

LEMMA CausalityKept == TypeOK /\ Causality /\ [Next]_vars => Causality'
<1>1. ASSUME TypeOK, Causality, Next PROVE Causality'
  <2>0. /\ WorldOK /\ now \in Nat /\ proc \in [Proc -> ProcType] /\ born \in [Tree -> 0..now]
        /\ there \subseteq Tree
    BY <1>1, TypeParts DEF WorldOK
  <2>1. CASE UNCHANGED world
    BY <1>1, <2>1 DEF world, Causality
  <2>2. ASSUME NEW s \in Sweeper, Remove(s) PROVE Causality'
    <3>1. Of(s) \in Tree
      BY <1>1, <2>2 DEF Remove, At, TypeOK, Of
    <3>2. ASSUME NEW c \in there \cup gone, Kind[c] = "clone" PROVE c \in there' \cup gone'
      BY <1>1, <2>2, <3>1, <3>2, InsideThere DEF Remove
    <3>3. proc' = proc /\ born' = born
      BY <2>2 DEF Remove
    <3>. QED
      BY <1>1, <3>2, <3>3 DEF Causality
  <2>3. ASSUME Programs PROVE Causality'
    <3>0. gone' = gone
      BY <2>3 DEF Programs
    <3>1. ASSUME NEW p \in Proc, Launch(p) \/ Quit(p) PROVE Causality'
      BY <1>1, <2>0, <3>0, <3>1 DEF Launch, Quit, NoProc, Causality
    <3>2. ASSUME NEW p \in Proc, Exec(p) PROVE Causality'
      <4>1. proc[p].clone # None /\ proc[p].run /\ proc[p] \in ProcType
        BY <2>0, <3>2, LeaksAssumption DEF Exec
      <4>2. \A q \in Proc : /\ proc'[q].clone = proc[q].clone /\ proc'[q].start = proc[q].start
                            /\ proc'[q].run = proc[q].run
                            /\ q # p => proc'[q].exe = proc[q].exe
        BY <2>0, <3>2 DEF Exec, ProcType
      <4>. QED
        BY <1>1, <3>0, <3>2, <4>1, <4>2 DEF Exec, Causality
    <3>3. ASSUME NEW p \in Proc, NEW t \in Tree, MakeClone(p, t) PROVE Causality'
      <4>1. \A q \in Proc : /\ proc'[q].start = proc[q].start
                            /\ proc'[q].run = proc[q].run /\ proc'[q].exe = proc[q].exe
                            /\ proc'[q].clone = IF q = p THEN t ELSE proc[q].clone
        BY <2>0, <3>3 DEF MakeClone, ProcType
      <4>2. \A x \in Tree : born'[x] = IF x = t THEN now ELSE born[x]
        BY <2>0, <3>3 DEF MakeClone
      <4>3. ASSUME NEW q \in Proc \ {p}, proc[q].clone # None PROVE proc[q].clone \in Tree \ {t}
        BY <1>1, <2>0, <3>3, <4>3 DEF MakeClone, Causality, ProcType
      <4>4. proc[p].start \in 0..now /\ now - proc[p].start <= Delay /\ Kind[t] = "clone"
            /\ there' = there \cup {t} /\ proc[p].run /\ t # None
        BY <2>0, <3>3, LeaksAssumption DEF MakeClone, ProcType
      <4>5. ASSUME NEW q \in Proc
            PROVE  /\ proc'[q].exe => proc'[q].run /\ proc'[q].clone # None
                   /\ proc'[q].clone # None =>
                        /\ Kind[proc'[q].clone] = "clone" /\ proc'[q].clone \in there' \cup gone'
                        /\ proc'[q].start <= born'[proc'[q].clone]
                        /\ born'[proc'[q].clone] <= proc'[q].start + Delay
        <5>1. CASE q = p
          BY <1>1, <2>0, <4>1, <4>2, <4>4, <5>1, LeaksAssumption DEF Causality
        <5>2. CASE q # p
          BY <1>1, <3>0, <4>1, <4>2, <4>3, <4>4, <5>2 DEF Causality
        <5>. QED
          BY <5>1, <5>2
      <4>. QED
        BY <4>5 DEF Causality
    <3>4. ASSUME NEW t \in Tree, Write(t) \/ OpenOrClose(t) \/ EndOrResume(t) \/ Mint(t) \/ BindOrUnlink(t)
          PROVE  Causality'
      BY <1>1, <3>0, <3>4 DEF Write, OpenOrClose, EndOrResume, Mint, BindOrUnlink, Causality
    <3>. QED
      BY <2>3, <3>1, <3>2, <3>3, <3>4 DEF Programs
  <2>4. CASE Tick
    BY <1>1, <2>4 DEF Tick, Causality
  <2>5. ASSUME NEW s \in Sweeper, Sweep(s) \/ Fail(s) PROVE UNCHANGED world \/ Remove(s)
    BY <1>1, <2>5, SweepWorld DEF Fail
  <2>. QED
    BY <1>1, <2>1, <2>2, <2>3, <2>4, <2>5 DEF Next
<1>2. ASSUME Causality, UNCHANGED vars PROVE Causality'
  BY <1>2 DEF Causality, vars, world
<1>. QED
  BY <1>1, <1>2

-----------------------------------------------------------------------------
(* What the reads prove. *)

LEMMA OldIsQuiet ==
    ASSUME TypeOK, NEW t \in Tree, OldEnough(t) PROVE "quiet" \in Holds(t)
<1>0. now \in Nat /\ mtime \in [Tree -> 0..now] /\ Gate[Kind[t]] \in Nat
  BY LeaksAssumption DEF TypeOK
<1>. DEFINE S == {mtime[x] : x \in Inside(t)}
<1>1. S \in SUBSET (0..now) /\ S # {}
  BY <1>0, InsideThere DEF Inside
<1>2. Newest(t) = Max(S)
  BY DEF Newest
<1>. HIDE DEF S
<1>3. Newest(t) \in 0..now /\ \A v \in S : v <= Newest(t)
  BY <1>0, <1>1, <1>2, MaxBounds
<1>4. \A x \in Inside(t) : mtime[x] \in 0..now /\ mtime[x] <= Newest(t)
  BY <1>0, <1>3, InsideThere DEF S
<1>. QED
  BY <1>0, <1>3, <1>4 DEF OldEnough, Holds, Fact

LEMMA NoRowsIsUnheld ==
    ASSUME NEW t \in Tree, Rows(t) = {}
    PROVE  /\ "unheld" \in Holds(t)
           /\ Kind[t] = "clone" => "orphan" \in Holds(t)
BY DEF Rows, Holds, Fact

(* No instance that runs from the clone was started outside its margin, so *)
(* rows that are all outside it are others'.                               *)
LEMMA CausalIsOrphan ==
    ASSUME TypeOK, Causality, NEW t \in Tree, Kind[t] = "clone", CausalStale(Rows(t), born[t])
    PROVE  {"orphan", "unheld"} \subseteq Holds(t)
<1>0. /\ now \in Nat /\ born[t] \in 0..now /\ Margin \in Nat /\ Delay \in Nat /\ Delay <= Margin
      /\ proc \in [Proc -> ProcType] /\ t # None
  BY LeaksAssumption, TypeParts DEF WorldOK
<1>1. CASE Rows(t) = {}
  BY <1>1, NoRowsIsUnheld
<1>2. CASE \A r \in Rows(t) : r.fd = "txt" /\ ~BornWith(r, born[t])
  <2>1. ASSUME NEW x \in Inside(t) \cap held PROVE FALSE
    <3>1. [fd |-> "file", start |-> 0] \in Rows(t)
      BY <2>1 DEF Rows
    <3>. QED
      BY <1>2, <3>1
  <2>2. ASSUME NEW p \in Proc, proc[p].run, proc[p].exe, proc[p].clone = t PROVE FALSE
    <3>1. [fd |-> "txt", start |-> proc[p].start] \in Rows(t)
      BY <2>2 DEF Rows
    <3>2. proc[p].start <= born[t] /\ born[t] <= proc[p].start + Delay /\ proc[p].start \in 0..now
      BY <1>0, <2>2 DEF Causality, ProcType
    <3>3. BornWith([fd |-> "txt", start |-> proc[p].start], born[t])
      BY <1>0, <3>2 DEF BornWith
    <3>. QED
      BY <1>2, <3>1, <3>3
  <2>. QED
    BY <2>1, <2>2 DEF Holds, Fact
<1>. QED
  BY <1>1, <1>2 DEF CausalStale

LEMMA HoldsStill ==
    ASSUME UNCHANGED world, NEW t \in Tree PROVE Holds(t)' = Holds(t)
BY DEF world, Holds, Inside, Plain

LEMMA Remembered ==
    ASSUME Watch, NEW s \in Sweeper, NEW t \in Tree, job'[s].tree = t
    PROVE  /\ job[s].tree = t => seen'[s] = seen[s] \cup Holds(t)'
           /\ job[s].tree # t => seen'[s] = Holds(t)'
<1>1. t # None /\ {x \in Tree : x = job'[s].tree} = {t}
  BY LeaksAssumption
<1>2. UNION {Holds(x)' : x \in {x \in Tree : x = job'[s].tree}} = Holds(t)'
  BY <1>1
<1>. QED
  BY <1>1, <1>2 DEF Watch

(* What everybody else does leaves a sweeper's line alone.                 *)
LEMMA OthersStay ==
    ASSUME TypeOK, NEW s \in Sweeper,
           \/ \E r \in Sweeper \ {s} : Sweep(r) \/ Fail(r)
           \/ Programs \/ Tick
    PROVE  job'[s] = job[s]
<1>0. job \in [Sweeper -> JobType]
  BY TypeParts DEF JobOK
<1>1. ASSUME NEW r \in Sweeper \ {s}, Sweep(r) \/ Fail(r) PROVE job'[s] = job[s]
  BY <1>0, <1>1 DEF Sweep, Scan, Turn, Member, Session, Age, Probe, Causal, Read, Remove, Leave,
       Goto, Fail
<1>2. ASSUME Programs \/ Tick PROVE job'[s] = job[s]
  BY <1>2 DEF Programs, Tick
<1>. QED
  BY <1>1, <1>2

EvidenceOf(s) ==
    /\ job[s].at = "session" => Kind[Of(s)] = "session"
    /\ job[s].at = "age" => Kind[Of(s)] # "clone" /\ BeforeAge(Of(s)) \subseteq seen[s]
    /\ job[s].at = "probe" => BeforeProbe(Of(s)) \subseteq seen[s]
    /\ job[s].at = "causal" => Kind[Of(s)] = "clone"
    /\ job[s].at = "remove" => \E P \in Proof[Of(s)] : P \subseteq seen[s]

LEMMA EvidenceKept == TypeOK /\ TypeOK' /\ Causality /\ Evidence /\ [Next]_vars => Evidence'
<1>1. ASSUME TypeOK, TypeOK', Causality, Evidence, Next, NEW s \in Sweeper PROVE EvidenceOf(s)'
  <2>0. EvidenceOf(s) /\ (job'[s].tree = None <=> job'[s].at \in {"idle", "next", "member"})
    BY <1>1 DEF Evidence, EvidenceOf, TypeOK, Of
  <2>1. CASE Leaves(s)
    BY <2>1 DEF Leaves, EvidenceOf
  <2>2. CASE ~Leaves(s)
    <3>1. PICK t \in Tree : job'[s].tree = t
      BY <1>1, <2>0, <2>2 DEF TypeOK, Leaves
    <3>2. /\ job[s].tree = t => seen'[s] = seen[s] \cup Holds(t)'
          /\ job[s].tree # t => seen'[s] = Holds(t)'
      BY <1>1, <3>1, Remembered DEF Next
    <3>3. CASE job'[s] = job[s]
      BY <2>0, <3>1, <3>2, <3>3 DEF EvidenceOf, Of
    <3>4. CASE Turns(s)
      BY <3>1, <3>4, LeaksAssumption
         DEF Turns, First, EvidenceOf, Of, BeforeAge, BeforeProbe, Kinds
    <3>5. CASE Reads(s)
      <4>0. Of(s) = t /\ job[s].tree = t /\ job'[s].tree = t /\ seen'[s] = seen[s] \cup Holds(t)
            /\ Of(s)' = t
        BY <3>1, <3>2, <3>5, HoldsStill DEF Reads, Moves, Of
      <4>1. CASE Moves(s, "session", "age") /\ t \notin alive
        BY <2>0, <4>0, <4>1 DEF Moves, EvidenceOf, BeforeAge, Holds, Fact
      <4>2. CASE Moves(s, "age", "probe") /\ Plain(t) /\ OldEnough(t)
        <5>1. {"quiet", "plain"} \subseteq Holds(t)
          BY <1>1, <4>2, OldIsQuiet DEF Holds, Fact
        <5>. QED
          BY <2>0, <4>0, <4>2, <5>1 DEF Moves, EvidenceOf, BeforeProbe
      <4>3. CASE Moves(s, "probe", "remove") /\ Rows(t) = {}
        <5>1. "unheld" \in Holds(t) /\ (Kind[t] = "clone" => "orphan" \in Holds(t))
          BY <4>3, NoRowsIsUnheld
        <5>2. BeforeProbe(t) \subseteq seen[s]
          BY <2>0, <4>0, <4>3 DEF Moves, EvidenceOf
        <5>3. \E P \in Proof[t] : P \subseteq seen[s] \cup Holds(t)
          BY <5>1, <5>2 DEF Proof, BeforeProbe, BeforeAge
        <5>. QED
          BY <4>0, <4>3, <5>3 DEF Moves, EvidenceOf
      <4>4. CASE Moves(s, "probe", "causal") /\ Kind[t] = "clone"
        BY <4>0, <4>4 DEF Moves, EvidenceOf
      <4>5. CASE Moves(s, "causal", "remove") /\ CausalStale(Rows(t), born[t])
        <5>1. Kind[t] = "clone"
          BY <2>0, <4>0, <4>5 DEF Moves, EvidenceOf
        <5>2. {"orphan", "unheld"} \subseteq Holds(t) /\ {"orphan", "unheld"} \in Proof[t]
          BY <1>1, <4>5, <5>1, CausalIsOrphan DEF Proof
        <5>. QED
          BY <4>0, <4>5, <5>2 DEF Moves, EvidenceOf
      <4>. QED
        BY <3>5, <4>0, <4>1, <4>2, <4>3, <4>4, <4>5 DEF Reads
    <3>6. CASE Fail(s)
      BY <1>1, <2>2, <3>6, LeaveTypes, TypeParts DEF Fail, NoJob, Leaves, JobOK
    <3>. QED
      BY <1>1, <2>2, <3>3, <3>4, <3>5, <3>6, SweepJobs, OthersStay DEF Next
  <2>. QED
    BY <2>1, <2>2
<1>2. ASSUME Evidence, UNCHANGED vars PROVE Evidence'
  BY <1>2 DEF Evidence, vars, Of
<1>. QED
  BY <1>1, <1>2 DEF Evidence, EvidenceOf

LEMMA LeaksInvHolds == Spec => []LeaksInv
<1>1. Init => LeaksInv
  <2>. SUFFICES ASSUME Init PROVE LeaksInv
    OBVIOUS
  <2>1. Evidence
    BY DEF Init, Evidence, NoJob
  <2>2. Causality
    BY LeaksAssumption DEF Init, Causality, NoProc, Of_
  <2>. QED
    BY <2>1, <2>2, InitTypes DEF LeaksInv
<1>2. LeaksInv /\ [Next]_vars => LeaksInv'
  BY TypesKept, CausalityKept, EvidenceKept DEF LeaksInv
<1>. QED
  BY <1>1, <1>2, PTL DEF Spec

-----------------------------------------------------------------------------
(* The promise. *)

LEMMA OnlyRemoveTakes ==
    ASSUME LeaksInv, Next, NEW t \in gone' \ gone
    PROVE  \E s \in Sweeper : Of(s) = t /\ \E P \in Proof[t] : P \subseteq seen[s]
<1>1. ASSUME NEW s \in Sweeper, Sweep(s) PROVE gone' = gone \/ Remove(s)
  BY <1>1, SweepWorld DEF LeaksInv, world
<1>2. PICK s \in Sweeper : Remove(s)
  BY <1>1 DEF Next, Fail, world, Programs, Tick
<1>3. Of(s) = t
  BY <1>2 DEF Remove
<1>4. job[s].at = "remove"
  BY <1>2 DEF Remove, At
<1>. QED
  BY <1>3, <1>4 DEF LeaksInv, Evidence

(* The leaks module implements the deleter's promise: a hit is removed     *)
(* only when, since the sweeper turned to it at apply time, every fact of  *)
(* its rule has been true ("a hit that went live between Plan and Apply is *)
(* refused", leaks/module.go:164-207; causality.go:28-62), whatever the    *)
(* programs do meanwhile.                                                  *)
THEOREM Refines == Spec => KeepsPromise
<1>1. Init => Promise!Init
  <2>. SUFFICES ASSUME Init PROVE Promise!Init
    OBVIOUS
  <2>1. \A s \in Sweeper : {Of(s)} \ {None} = {}
    BY DEF Init, Of, NoJob
  <2>2. [t \in Tree |-> Holds(t)] \in [Tree -> SUBSET Fact]
    BY DEF Holds
  <2>3. seen = [r \in Sweeper |-> {}]
    BY DEF Init
  <2>. QED
    BY <2>1, <2>2, <2>3 DEF Promise!Init
<1>2. LeaksInv /\ LeaksInv' /\ [Next]_vars => [Promise!Next]_(Promise!vars)
  <2>1. ASSUME LeaksInv, LeaksInv', Next PROVE Promise!Next
    <3>1. [t \in Tree |-> Holds(t)]' \in [Tree -> SUBSET Fact]
      BY DEF Holds
    <3>2. [s \in Sweeper |-> {Of(s)} \ {None}]' \in [Sweeper -> {{}} \cup {{t} : t \in Tree}]
      BY <2>1 DEF LeaksInv, TypeOK, Of
    <3>3. ASSUME NEW s \in Sweeper PROVE Promise!Witnessed(s)
      <4>1. CASE job'[s].tree = None
        BY <2>1, <4>1 DEF Promise!Witnessed, Next, Watch, Of
      <4>2. ASSUME NEW t \in Tree, job'[s].tree = t PROVE Promise!Witnessed(s)
        <5>1. /\ job[s].tree = t => seen'[s] = seen[s] \cup Holds(t)'
              /\ job[s].tree # t => seen'[s] = Holds(t)'
          BY <2>1, <4>2, Remembered DEF Next
        <5>2. t # None /\ {job'[s].tree} \ {None} = {t}
          BY <4>2, LeaksAssumption
        <5>3. {job[s].tree} \ {None} = {t} <=> job[s].tree = t
          BY <5>2
        <5>4. UNION {[y \in Tree |-> Holds(y)]'[x] : x \in {t}} = Holds(t)'
          OBVIOUS
        <5>. QED
          BY <5>1, <5>2, <5>3, <5>4 DEF Promise!Witnessed, Of
      <4>. QED
        BY <2>1, <4>1, <4>2 DEF LeaksInv, TypeOK, Of
    <3>4. ASSUME NEW t \in (Tree \ gone) \ (Tree \ gone')
          PROVE  \E s \in Sweeper : Promise!Proven(s, t)
      BY <2>1, <3>4, OnlyRemoveTakes, LeaksAssumption DEF Promise!Proven, Of
    <3>. QED
      BY <3>1, <3>2, <3>3, <3>4 DEF Promise!Next, Promise!World
  <2>2. ASSUME UNCHANGED vars PROVE UNCHANGED Promise!vars
    BY <2>2 DEF vars, world, Promise!vars, Holds, Inside, Plain, Of
  <2>. QED
    BY <2>1, <2>2
<1>. QED
  BY <1>1, <1>2, LeaksInvHolds, PTL DEF Spec, KeepsPromise, Promise!Spec

-----------------------------------------------------------------------------
(* Folds over finite sets. *)

(* What holds of nothing, and of a finite set when it does without some    *)
(* element of it, holds of every subset.                                   *)
LEMMA Descent ==
    ASSUME NEW S, IsFiniteSet(S), NEW B, {} \in B,
           \A s \in SUBSET S : s # {} => \E x \in s : s \ {x} \in B => s \in B
    PROVE  SUBSET S \subseteq B
<1>. DEFINE Bad == (SUBSET S) \ B
<1>1. SUFFICES ASSUME Bad # {} PROVE FALSE
  OBVIOUS
<1>2. Bad \subseteq FiniteSubsetsOf(S)
  BY FS_Subset DEF FiniteSubsetsOf
<1>3. PICK u \in Bad : \A v \in Bad : <<v, u>> \notin StrictSubsetOrdering(S)
  <2>. HIDE DEF Bad
  <2>. QED
    BY <1>1, <1>2, FS_StrictSubsetOrderingWellFounded, WFMin
<1>4. u \in SUBSET S /\ u \notin B /\ u # {}
  OBVIOUS
<1>5. PICK x \in u : u \ {x} \in B => u \in B
  BY <1>4
<1>6. u \ {x} \in Bad
  BY <1>4, <1>5
<1>7. <<u \ {x}, u>> \in StrictSubsetOrdering(S)
  BY <1>4 DEF StrictSubsetOrdering
<1>. QED
  BY <1>3, <1>6, <1>7

(* A fold over a finite set, element by element as c picks them, from base *)
(* on: it has a value at every subset, as of all relations that hold its   *)
(* graph the smallest is a function.                                       *)
Foldable(S, V, base, c, step) ==
    /\ IsFiniteSet(S) /\ base \in V
    /\ \A s \in SUBSET S : s # {} => c[s] \in s
    /\ \A v \in V, x \in S : step[x][v] \in V
Folds(g, S, V, base, c, step) ==
    /\ g \in [SUBSET S -> V]
    /\ \A s \in SUBSET S : g[s] = IF s = {} THEN base ELSE step[c[s]][g[s \ {c[s]}]]

LEMMA FoldExists ==
    ASSUME NEW S, NEW V, NEW base, NEW c, NEW step, Foldable(S, V, base, c, step)
    PROVE  \E g : Folds(g, S, V, base, c, step)
<1>. SUFFICES ASSUME IsFiniteSet(S), base \in V,
                     \A s \in SUBSET S : s # {} => c[s] \in s,
                     \A v \in V, x \in S : step[x][v] \in V
              PROVE  \E g \in [SUBSET S -> V] :
                        \A s \in SUBSET S : g[s] = IF s = {} THEN base ELSE step[c[s]][g[s \ {c[s]}]]
  BY DEF Foldable, Folds
<1>. DEFINE Carries(R) == /\ <<{}, base>> \in R
                        /\ \A s \in SUBSET S, v \in V :
                              s # {} /\ <<s \ {c[s]}, v>> \in R => <<s, step[c[s]][v]>> \in R
            Least == {p \in (SUBSET S) \X V : \A R \in SUBSET ((SUBSET S) \X V) : Carries(R) => p \in R}
            One == {s \in SUBSET S : \E v \in V : <<s, v>> \in Least /\ \A w \in V : <<s, w>> \in Least => w = v}
<1>1. Carries(Least)
  <2>1. <<{}, base>> \in Least
    OBVIOUS
  <2>2. ASSUME NEW s \in SUBSET S, NEW v \in V, s # {}, <<s \ {c[s]}, v>> \in Least
        PROVE  <<s, step[c[s]][v]>> \in Least
    <3>1. step[c[s]][v] \in V /\ c[s] \in S
      BY <2>2
    <3>2. ASSUME NEW R \in SUBSET ((SUBSET S) \X V), Carries(R) PROVE <<s, step[c[s]][v]>> \in R
      BY <2>2, <3>2
    <3>. QED
      BY <3>1, <3>2
  <2>. HIDE DEF Least
  <2>. QED
    BY <2>1, <2>2
<1>2. \A R \in SUBSET ((SUBSET S) \X V) : Carries(R) => Least \subseteq R
  OBVIOUS
<1>3. Least \subseteq (SUBSET S) \X V
  OBVIOUS
<1>4. {} \in One
  <2>. DEFINE R == Least \ {p \in Least : p[1] = {} /\ p[2] # base}
  <2>1. Carries(R)
    <3>. HIDE DEF Least
    <3>1. <<{}, base>> \in R
      BY <1>1
    <3>2. ASSUME NEW s \in SUBSET S, NEW v \in V, s # {}, <<s \ {c[s]}, v>> \in R
          PROVE  <<s, step[c[s]][v]>> \in R
      BY <1>1, <3>2
    <3>. HIDE DEF R
    <3>. QED
      BY <3>1, <3>2
  <2>2. R \in SUBSET ((SUBSET S) \X V)
    BY <1>3
  <2>3. Least \subseteq R
    <3>. HIDE DEF R, Least, Carries
    <3>. QED
      BY <1>2, <2>1, <2>2
  <2>4. \A w \in V : <<{}, w>> \in Least => w = base
    <3>. HIDE DEF Least
    <3>. QED
      BY <2>3
  <2>5. <<{}, base>> \in Least
    <3>. HIDE DEF Least
    <3>. QED
      BY <1>1
  <2>. HIDE DEF Least
  <2>. QED
    BY <2>4, <2>5
<1>5. ASSUME NEW s \in SUBSET S, s # {}, s \ {c[s]} \in One PROVE s \in One
  <2>. HIDE DEF Least
  <2>1. PICK v \in V : /\ <<s \ {c[s]}, v>> \in Least
                       /\ \A w \in V : <<s \ {c[s]}, w>> \in Least => w = v
    BY <1>5
  <2>. DEFINE x == step[c[s]][v]
              R == Least \ {p \in Least : p[1] = s /\ p[2] # x}
  <2>2. x \in V /\ <<s, x>> \in Least
    BY <1>1, <1>5, <2>1
  <2>. HIDE DEF x
  <2>3. Carries(R)
    <3>1. <<{}, base>> \in R
      BY <1>1, <1>5
    <3>2. ASSUME NEW r \in SUBSET S, NEW u \in V, r # {}, <<r \ {c[r]}, u>> \in R
          PROVE  <<r, step[c[r]][u]>> \in R
      <4>1. <<r, step[c[r]][u]>> \in Least
        BY <1>1, <3>2
      <4>2. r = s => u = v
        BY <2>1, <3>2
      <4>. QED
        BY <4>1, <4>2 DEF x
    <3>. HIDE DEF R
    <3>. QED
      BY <3>1, <3>2
  <2>4. R \in SUBSET ((SUBSET S) \X V)
    BY <1>3
  <2>5. Least \subseteq R
    <3>. HIDE DEF R, Carries
    <3>. QED
      BY <1>2, <2>3, <2>4
  <2>6. \A w \in V : <<s, w>> \in Least => w = x
    BY <2>5
  <2>. QED
    BY <2>2, <2>6
<1>6. SUBSET S \subseteq One
  <2>1. \A s \in SUBSET S : s # {} => \E y \in s : s \ {y} \in One => s \in One
    <3>. HIDE DEF One
    <3>. QED
      BY <1>5
  <2>. HIDE DEF One
  <2>. QED
    BY <1>4, <2>1, Descent
<1>. DEFINE g == [s \in SUBSET S |-> CHOOSE v \in V : <<s, v>> \in Least]
<1>7. ASSUME NEW s \in SUBSET S
      PROVE  /\ g[s] \in V /\ <<s, g[s]>> \in Least
             /\ \A w \in V : <<s, w>> \in Least => w = g[s]
  <2>. HIDE DEF Least
  <2>1. PICK v \in V : <<s, v>> \in Least /\ \A w \in V : <<s, w>> \in Least => w = v
    BY <1>6
  <2>. QED
    BY <2>1
<1>8. ASSUME NEW s \in SUBSET S
      PROVE  g[s] = IF s = {} THEN base ELSE step[c[s]][g[s \ {c[s]}]]
  <2>. HIDE DEF Least, g
  <2>1. CASE s = {}
    BY <1>1, <1>7, <2>1
  <2>2. CASE s # {}
    <3>1. /\ g[s \ {c[s]}] \in V /\ <<s \ {c[s]}, g[s \ {c[s]}]>> \in Least
      BY <1>7
    <3>2. step[c[s]][g[s \ {c[s]}]] \in V /\ c[s] \in S
      BY <2>2, <3>1
    <3>3. <<s, step[c[s]][g[s \ {c[s]}]]>> \in Least
      BY <1>1, <2>2, <3>1
    <3>. QED
      BY <1>7, <2>2, <3>2, <3>3
  <2>. QED
    BY <2>1, <2>2
<1>9. g \in [SUBSET S -> V]
  <2>. HIDE DEF Least
  <2>1. \A s \in SUBSET S : (CHOOSE v \in V : <<s, v>> \in Least) \in V
    BY <1>7
  <2>. QED
    BY <2>1
<1>. QED
  <2>. HIDE DEF g
  <2>. QED
    BY <1>8, <1>9

-----------------------------------------------------------------------------
(* Sizes. *)

Extent == [start : Int, end : Int]
Covered(E) == UNION {e.start..(e.end - 1) : e \in E}

(* The extent that comes last is one of them. *)
LEMMA FurthestIn ==
    ASSUME NEW E, IsFiniteSet(E), E \subseteq Extent, NEW s \in SUBSET E, s # {}
    PROVE  Size!Furthest(s) \in s /\ \A x \in s : x.start <= Size!Furthest(s).start
<1>. DEFINE B == {t \in SUBSET E : t = {} \/ \E e \in t : \A x \in t : x.start <= e.start}
<1>1. {} \in B
  OBVIOUS
<1>2. ASSUME NEW t \in SUBSET E, NEW x \in t, t \ {x} \in B PROVE t \in B
  <2>1. CASE t \ {x} = {}
    <3>1. \A y \in t : y = x /\ x.start \in Int
      BY <2>1 DEF Extent
    <3>. QED
      BY <3>1
  <2>2. CASE \E e \in t \ {x} : \A y \in t \ {x} : y.start <= e.start
    <3>1. PICK e \in t \ {x} : \A y \in t \ {x} : y.start <= e.start
      BY <2>2
    <3>2. x.start \in Int /\ e.start \in Int /\ \A y \in t : y.start \in Int
      BY DEF Extent
    <3>3. CASE x.start <= e.start
      <4>1. \A y \in t : y.start <= e.start
        BY <3>1, <3>3
      <4>. QED
        BY <4>1
    <3>4. CASE e.start <= x.start
      <4>1. \A y \in t : y.start <= x.start
        BY <3>1, <3>2, <3>4
      <4>. QED
        BY <4>1
    <3>. QED
      BY <3>2, <3>3, <3>4
  <2>. QED
    BY <1>2, <2>1, <2>2
<1>3. SUBSET E \subseteq B
  <2>1. \A t \in SUBSET E : t # {} => \E x \in t : t \ {x} \in B => t \in B
    <3>. HIDE DEF B
    <3>. QED
      BY <1>2
  <2>. HIDE DEF B
  <2>. QED
    BY <1>1, <2>1, Descent
<1>4. \E e \in s : \A x \in s : x.start <= e.start
  BY <1>3
<1>. QED
  BY <1>4 DEF Size!Furthest

Acc == [sum : Int, open : BOOLEAN, start : Int, end : Int]

LEMMA MergeTypes ==
    ASSUME NEW a \in Acc, NEW e \in Extent
    PROVE  Size!Merge(a, e) \in Acc
BY DEF Acc, Extent, Size!Merge, Size!Closed

(* What the loop knows of the extents s it has seen: the open interval and *)
(* what lies below it, counted, are what they cover.                       *)
Seen(s, a) ==
    IF s = {} THEN a = Size!Nothing
    ELSE /\ a \in Acc /\ a.open /\ a.start < a.end
         /\ \A e \in s : e.end <= a.end
         /\ \E e \in s : e.start = a.start
         /\ \E low \in SUBSET Int :
               /\ \A x \in low : x < a.start
               /\ IsFiniteSet(low) /\ Cardinality(low) = a.sum
               /\ Covered(s) = low \cup (a.start..(a.end - 1))

LEMMA CoveredBoth == ASSUME NEW s, NEW e PROVE Covered(s \cup {e}) = Covered(s) \cup (e.start..(e.end - 1))
BY DEF Covered

LEMMA ClosedIs ==
    ASSUME NEW s, NEW a, Seen(s, a)
    PROVE  IsFiniteSet(Covered(s)) /\ Cardinality(Covered(s)) = Size!Closed(a)
<1>1. CASE s = {}
  <2>1. Covered(s) = {} /\ Size!Closed(a) = 0
    BY <1>1 DEF Seen, Covered, Size!Closed, Size!Nothing
  <2>. QED
    BY <2>1, FS_EmptySet
<1>2. CASE s # {}
  <2>1. a \in Acc /\ a.open /\ a.start < a.end
    BY <1>2 DEF Seen
  <2>2. PICK low \in SUBSET Int :
               /\ \A x \in low : x < a.start
               /\ IsFiniteSet(low) /\ Cardinality(low) = a.sum
               /\ Covered(s) = low \cup (a.start..(a.end - 1))
    BY <1>2 DEF Seen
  <2>3. a.start \in Int /\ a.end \in Int /\ a.sum \in Int
    BY <2>1 DEF Acc
  <2>4. /\ IsFiniteSet(a.start..(a.end - 1))
        /\ Cardinality(a.start..(a.end - 1)) = a.end - a.start
    <3>1. /\ IsFiniteSet(a.start..(a.end - 1))
          /\ Cardinality(a.start..(a.end - 1))
                = IF a.start > a.end - 1 THEN 0 ELSE (a.end - 1) - a.start + 1
      BY <2>3, FS_Interval
    <3>. QED
      BY <2>1, <2>3, <3>1
  <2>5. low \cap (a.start..(a.end - 1)) = {}
    BY <2>2, <2>3
  <2>6. Cardinality(low \cap (a.start..(a.end - 1))) = 0
    BY <2>5, FS_EmptySet
  <2>. DEFINE run == a.start..(a.end - 1)
  <2>. HIDE DEF run
  <2>7. /\ IsFiniteSet(low \cup run)
        /\ Cardinality(low \cup run) = Cardinality(low) + Cardinality(run) - Cardinality(low \cap run)
    BY <2>2, <2>4, FS_Union DEF run
  <2>8. Size!Closed(a) = a.sum + a.end - a.start
    BY <2>1 DEF Size!Closed
  <2>. QED
    BY <2>2, <2>3, <2>4, <2>6, <2>7, <2>8 DEF run
<1>. QED
  BY <1>1, <1>2

LEMMA SeenOneMore ==
    ASSUME NEW s, s \subseteq Extent, NEW a, Seen(s, a), NEW e \in Extent, e.start < e.end,
           \A x \in s : x.start <= e.start
    PROVE  Seen(s \cup {e}, Size!Merge(a, e))
<1>. DEFINE b == Size!Merge(a, e)
            t == s \cup {e}
<1>0. e.start \in Int /\ e.end \in Int /\ \A x \in s : x.start \in Int /\ x.end \in Int
  BY DEF Extent
<1>1. Covered(t) = Covered(s) \cup (e.start..(e.end - 1))
  BY CoveredBoth
<1>2. CASE s # {} /\ e.start <= a.end
  <2>1. /\ a \in Acc /\ a.open /\ a.start < a.end /\ a.start \in Int /\ a.end \in Int
        /\ \A x \in s : x.end <= a.end
    BY <1>2 DEF Seen, Acc
  <2>2. PICK y \in s : y.start = a.start
    BY <1>2 DEF Seen
  <2>3. PICK low \in SUBSET Int :
               /\ \A x \in low : x < a.start
               /\ IsFiniteSet(low) /\ Cardinality(low) = a.sum
               /\ Covered(s) = low \cup (a.start..(a.end - 1))
    BY <1>2 DEF Seen
  <2>. DEFINE m == IF e.end > a.end THEN e.end ELSE a.end
  <2>4. b = [a EXCEPT !.end = m]
    BY <1>2, <2>1 DEF Size!Merge
  <2>5. m \in Int /\ a.end <= m /\ e.end <= m /\ (m = a.end \/ m = e.end)
    BY <1>0, <2>1
  <2>. HIDE DEF m, b
  <2>6. b \in Acc /\ b.open /\ b.start = a.start /\ b.end = m /\ b.sum = a.sum
    BY <2>1, <2>4, <2>5 DEF Acc
  <2>7. a.start <= e.start
    BY <2>2
  <2>8. (a.start..(a.end - 1)) \cup (e.start..(e.end - 1)) = a.start..(m - 1)
    BY <1>0, <1>2, <2>1, <2>5, <2>7
  <2>9. Covered(t) = low \cup (b.start..(b.end - 1))
    BY <1>1, <2>3, <2>6, <2>8
  <2>10. \A x \in t : x.end <= b.end
    BY <1>0, <2>1, <2>5, <2>6
  <2>11. b.start < b.end
    BY <2>1, <2>5, <2>6
  <2>. HIDE DEF t
  <2>12. t # {} /\ y \in t
    BY DEF t
  <2>13. /\ \A x \in low : x < b.start
         /\ IsFiniteSet(low) /\ Cardinality(low) = b.sum
    BY <2>3, <2>6
  <2>. QED
    BY <2>2, <2>6, <2>9, <2>10, <2>11, <2>12, <2>13 DEF Seen, b, t
<1>3. CASE s = {} \/ ~(e.start <= a.end)
  <2>1. b = [sum |-> Size!Closed(a), open |-> TRUE, start |-> e.start, end |-> e.end]
    BY <1>3 DEF Size!Merge, Seen, Size!Nothing
  <2>2. IsFiniteSet(Covered(s)) /\ Cardinality(Covered(s)) = Size!Closed(a)
    BY ClosedIs
  <2>3. Size!Closed(a) \in Int
    BY <2>2, FS_CardinalityType
  <2>4. \A x \in Covered(s) : x \in Int /\ x < e.start
    <3>1. SUFFICES ASSUME NEW z \in s, NEW x \in z.start..(z.end - 1) PROVE x \in Int /\ x < e.start
      BY DEF Covered
    <3>2. z.end <= a.end /\ a.end \in Int /\ e.start > a.end
      BY <1>3, <1>0 DEF Seen, Acc
    <3>. QED
      BY <1>0, <3>2
  <2>. HIDE DEF b
  <2>5. b \in Acc /\ b.open /\ b.start = e.start /\ b.end = e.end /\ b.sum = Size!Closed(a)
    BY <1>0, <2>1, <2>3 DEF Acc
  <2>6. \A x \in t : x.end <= b.end
    <3>1. \A x \in s : x.end <= e.end
      <4>1. SUFFICES ASSUME NEW x \in s PROVE x.end <= e.end
        OBVIOUS
      <4>2. x.end <= a.end /\ a.end \in Int /\ e.start > a.end
        BY <1>3, <1>0 DEF Seen, Acc
      <4>. QED
        BY <1>0, <4>2
    <3>. QED
      BY <1>0, <2>5, <3>1
  <2>7. Covered(s) \in SUBSET Int
    BY <2>4
  <2>. HIDE DEF t
  <2>8. t # {} /\ e \in t
    BY DEF t
  <2>9. Covered(t) = Covered(s) \cup (b.start..(b.end - 1))
    BY <1>1, <2>5
  <2>10. \A x \in Covered(s) : x < b.start
    BY <2>4, <2>5
  <2>11. b.start < b.end
    BY <2>5
  <2>12. Cardinality(Covered(s)) = b.sum
    BY <2>2, <2>5
  <2>13. \E low \in SUBSET Int :
               /\ \A x \in low : x < b.start
               /\ IsFiniteSet(low) /\ Cardinality(low) = b.sum
               /\ Covered(t) = low \cup (b.start..(b.end - 1))
    BY <2>2, <2>7, <2>9, <2>10, <2>12
  <2>. QED
    BY <2>5, <2>6, <2>8, <2>11, <2>13 DEF Seen, b, t
<1>. QED
  BY <1>2, <1>3

(* The merge counts the covered blocks of a device.                        *)
LEMMA TotalOnIs ==
    ASSUME NEW E, IsFiniteSet(E), E \subseteq Extent, \A e \in E : e.start < e.end
    PROVE  IsFiniteSet(Covered(E)) /\ Size!TotalOn(E) = Cardinality(Covered(E))
<1>. DEFINE c(s) == Size!Furthest(s)
            P(g) == g = [s \in SUBSET E |-> IF s = {} THEN Size!Nothing ELSE Size!Merge(g[s \ {c(s)}], c(s))]
            G == CHOOSE g : P(g)
            C == [s \in SUBSET E |-> c(s)]
            step == [e \in E |-> [a \in Acc |-> Size!Merge(a, e)]]
<1>1. Size!Merged(E) = G[E]
  BY DEF Size!Merged, Size!MapThenFoldSet
<1>2. \A s \in SUBSET E : s # {} => c(s) \in s /\ \A x \in s : x.start <= c(s).start
  BY FurthestIn
<1>3. \E g : P(g)
  <2>1. Size!Nothing \in Acc
    BY DEF Size!Nothing, Acc
  <2>2. \A s \in SUBSET E : s # {} => C[s] \in s
    <3>. HIDE DEF c
    <3>. QED
      BY <1>2
  <2>3. \A a \in Acc, e \in E : step[e][a] \in Acc
    <3>1. \A a \in Acc, e \in E : Size!Merge(a, e) \in Acc
      BY MergeTypes
    <3>. QED
      BY <3>1
  <2>4. PICK g \in [SUBSET E -> Acc] :
          \A s \in SUBSET E : g[s] = IF s = {} THEN Size!Nothing ELSE step[C[s]][g[s \ {C[s]}]]
    <3>1. Foldable(E, Acc, Size!Nothing, C, step)
      <4>. HIDE DEF step, C
      <4>. QED
        BY <2>1, <2>2, <2>3 DEF Foldable
    <3>2. \E g : Folds(g, E, Acc, Size!Nothing, C, step)
      <4>. HIDE DEF step, C
      <4>. QED
        BY <3>1, FoldExists
    <3>. HIDE DEF step, C
    <3>. QED
      BY <3>2 DEF Folds
  <2>5. \A s \in SUBSET E : g[s] = IF s = {} THEN Size!Nothing ELSE Size!Merge(g[s \ {c(s)}], c(s))
    <3>1. ASSUME NEW s \in SUBSET E, s # {} PROVE g[s] = Size!Merge(g[s \ {c(s)}], c(s))
      <4>. HIDE DEF c
      <4>1. c(s) \in E /\ s \ {c(s)} \in SUBSET E
        BY <1>2, <3>1
      <4>2. g[s \ {c(s)}] \in Acc
        BY <4>1
      <4>3. g[s] = step[C[s]][g[s \ {C[s]}]]
        <5>. HIDE DEF step, C
        <5>. QED
          BY <2>4, <3>1
      <4>. QED
        BY <4>1, <4>2, <4>3
    <3>2. g[{}] = Size!Nothing
      <4>. HIDE DEF step, C
      <4>. QED
        BY <2>4
    <3>. HIDE DEF c
    <3>. QED
      BY <3>1, <3>2
  <2>6. P(g)
    <3>. HIDE DEF c
    <3>. QED
      BY <2>5
  <2>. HIDE DEF P
  <2>. QED
    BY <2>6
<1>4. P(G)
  <2>. HIDE DEF P
  <2>. QED
    BY <1>3
<1>5. \A s \in SUBSET E : G[s] = IF s = {} THEN Size!Nothing ELSE Size!Merge(G[s \ {c(s)}], c(s))
  <2>. HIDE DEF G, c
  <2>. QED
    BY <1>4
<1>6. Seen(E, G[E])
  <2>. DEFINE B == {s \in SUBSET E : Seen(s, G[s])}
  <2>. HIDE DEF G, P, C, step
  <2>1. {} \in B
    BY <1>5 DEF Seen
  <2>2. ASSUME NEW s \in SUBSET E, s # {}, s \ {c(s)} \in B PROVE s \in B
    <3>. DEFINE e == c(s)
                r == s \ {e}
    <3>1. e \in s /\ \A x \in s : x.start <= e.start
      BY <1>2, <2>2
    <3>. HIDE DEF e
    <3>2. r \subseteq Extent /\ Seen(r, G[r]) /\ e \in Extent /\ e.start < e.end
          /\ (\A x \in r : x.start <= e.start) /\ s = r \cup {e}
      BY <2>2, <3>1 DEF e
    <3>. HIDE DEF r
    <3>3. Seen(r \cup {e}, Size!Merge(G[r], e))
      BY <3>2, SeenOneMore
    <3>4. G[s] = Size!Merge(G[r], e)
      BY <1>5, <2>2 DEF e, r
    <3>. QED
      BY <3>2, <3>3, <3>4
  <2>3. \A s \in SUBSET E : s # {} => \E x \in s : s \ {x} \in B => s \in B
    <3>. HIDE DEF B, c
    <3>. QED
      BY <1>2, <2>2
  <2>4. SUBSET E \subseteq B
    <3>. HIDE DEF B
    <3>. QED
      BY <2>1, <2>3, Descent
  <2>. QED
    BY <2>4
<1>. QED
  <2>. HIDE DEF G
  <2>. QED
    BY <1>1, <1>6, ClosedIs DEF Size!TotalOn

(* Sums over finite sets, and the sizes of sets they add up. *)
Picks(c, S) == IsFiniteSet(S) /\ \A s \in SUBSET S : s # {} => c[s] \in s
Numbers(f, S) == \A x \in S : f[x] \in Int
Sums(g, f, c, S) ==
    g[{}] = 0 /\ \A s \in SUBSET S : s # {} => g[s] = f[c[s]] + g[s \ {c[s]}]
Sizes(f, Z, S) == \A x \in S : IsFiniteSet(Z[x]) /\ f[x] = Cardinality(Z[x])

LEMMA SumExists ==
    ASSUME NEW S, NEW c, NEW f, Picks(c, S), Numbers(f, S)
    PROVE  \E g \in [SUBSET S -> Int] : Sums(g, f, c, S)
<1>. SUFFICES ASSUME IsFiniteSet(S), \A s \in SUBSET S : s # {} => c[s] \in s,
                     \A x \in S : f[x] \in Int
              PROVE  \E g \in [SUBSET S -> Int] : Sums(g, f, c, S)
  BY DEF Picks, Numbers
<1>. DEFINE step == [x \in S |-> [v \in Int |-> f[x] + v]]
<1>1. Foldable(S, Int, 0, c, step)
  <2>1. \A v \in Int, x \in S : step[x][v] \in Int
    OBVIOUS
  <2>. HIDE DEF step
  <2>. QED
    BY <2>1 DEF Foldable
<1>2. \E g : Folds(g, S, Int, 0, c, step)
  <2>. HIDE DEF step
  <2>. QED
    BY <1>1, FoldExists
<1>3. PICK g : Folds(g, S, Int, 0, c, step)
  BY <1>2
<1>4. g \in [SUBSET S -> Int] /\ g[{}] = 0
  <2>. HIDE DEF step
  <2>. QED
    BY <1>3 DEF Folds
<1>5. ASSUME NEW s \in SUBSET S, s # {} PROVE g[s] = f[c[s]] + g[s \ {c[s]}]
  <2>1. c[s] \in S /\ g[s \ {c[s]}] \in Int
    BY <1>4, <1>5
  <2>2. g[s] = step[c[s]][g[s \ {c[s]}]]
    <3>. HIDE DEF step
    <3>. QED
      BY <1>3, <1>5 DEF Folds
  <2>. QED
    BY <2>1, <2>2
<1>. QED
  BY <1>4, <1>5 DEF Sums

Disjoint(Z, S) == \A x, y \in S : x # y => Z[x] \cap Z[y] = {}
All(S, Z) == UNION {Z[x] : x \in S}

LEMMA SumOfCards ==
    ASSUME NEW S, NEW G, NEW c, NEW f, NEW Z, Picks(c, S), Sums(G, f, c, S), Sizes(f, Z, S)
    PROVE  /\ IsFiniteSet(All(S, Z)) /\ G[S] \in Int /\ Cardinality(All(S, Z)) <= G[S]
           /\ Disjoint(Z, S) => Cardinality(All(S, Z)) = G[S]
<1>. DEFINE Fits(s) == /\ IsFiniteSet(All(s, Z)) /\ G[s] \in Int
                       /\ Cardinality(All(s, Z)) <= G[s]
                       /\ Disjoint(Z, S) => Cardinality(All(s, Z)) = G[s]
            B == {s \in SUBSET S : Fits(s)}
<1>1. {} \in B
  <2>1. All({}, Z) = {}
    BY DEF All
  <2>2. IsFiniteSet(All({}, Z)) /\ Cardinality(All({}, Z)) = 0
    BY <2>1, FS_EmptySet
  <2>. QED
    BY <2>2 DEF Sums
<1>2. ASSUME NEW s \in SUBSET S, s # {}, s \ {c[s]} \in B PROVE s \in B
  <2>. DEFINE x == c[s]
              r == s \ {x}
  <2>1. x \in s /\ x \in S /\ G[s] = f[x] + G[r]
    BY <1>2 DEF Sums, Picks
  <2>2. IsFiniteSet(Z[x]) /\ f[x] = Cardinality(Z[x])
    BY <2>1 DEF Sizes
  <2>3. Fits(r)
    <3>. HIDE DEF Fits
    <3>. QED
      BY <1>2
  <2>4. All(s, Z) = Z[x] \cup All(r, Z)
    BY <2>1 DEF All
  <2>5. Disjoint(Z, S) => Z[x] \cap All(r, Z) = {}
    BY <2>1 DEF All, Disjoint
  <2>. DEFINE u == Z[x]
              v == All(r, Z)
  <2>6. IsFiniteSet(u) /\ IsFiniteSet(v)
    BY <2>2, <2>3
  <2>. HIDE DEF u, v
  <2>7. /\ IsFiniteSet(u \cup v)
        /\ Cardinality(u \cup v) = Cardinality(u) + Cardinality(v) - Cardinality(u \cap v)
    BY <2>6, FS_Union
  <2>8. IsFiniteSet(u \cap v)
    BY <2>6, FS_Subset
  <2>9. Cardinality(u) \in Nat /\ Cardinality(v) \in Nat /\ Cardinality(u \cap v) \in Nat
    BY <2>6, <2>8, FS_CardinalityType
  <2>10. Disjoint(Z, S) => Cardinality(u \cap v) = 0
    BY <2>5, FS_EmptySet DEF u, v
  <2>11. Cardinality(v) <= G[r] /\ (Disjoint(Z, S) => Cardinality(v) = G[r]) /\ G[r] \in Int
    BY <2>3 DEF v
  <2>12. G[s] = Cardinality(u) + G[r]
    BY <2>1, <2>2 DEF u
  <2>13. All(s, Z) = u \cup v
    BY <2>4 DEF u, v
  <2>. HIDE DEF r, x
  <2>14. Fits(s)
    BY <2>7, <2>9, <2>10, <2>11, <2>12, <2>13
  <2>. HIDE DEF Fits
  <2>. QED
    BY <2>14
<1>3. \A s \in SUBSET S : s # {} => \E x \in s : s \ {x} \in B => s \in B
  <2>. HIDE DEF B
  <2>. QED
    BY <1>2 DEF Picks
<1>4. SUBSET S \subseteq B
  <2>. HIDE DEF B
  <2>. QED
    BY <1>1, <1>3, Descent DEF Picks
<1>5. Fits(S)
  <2>. HIDE DEF Fits
  <2>. QED
    BY <1>4
<1>. QED
  BY <1>5

LEMMA ExtentsOfFile ==
    ASSUME NEW f \in File
    PROVE  /\ IsFiniteSet(Size!FileExtents(f)) /\ Size!FileExtents(f) \subseteq Extent
           /\ \A e \in Size!FileExtents(f) : e.start < e.end
<1>. DEFINE D == {j \in DOMAIN Extents[f] : /\ j <= Mapped[f]
                                          /\ Extents[f][j][1] >= 0 /\ Extents[f][j][2] > 0}
            g == [i \in D |-> [start |-> Extents[f][i][1], end |-> Extents[f][i][1] + Extents[f][i][2]]]
<1>1. Extents[f] \in Seq(Int \X Int)
  BY LeakReportAssumption
<1>2. IsFiniteSet(D)
  <2>1. DOMAIN Extents[f] = 1..Len(Extents[f]) /\ Len(Extents[f]) \in Nat
    BY <1>1
  <2>2. IsFiniteSet(1..Len(Extents[f]))
    <3>1. \A n \in Nat : IsFiniteSet(1..n)
      BY FS_Interval
    <3>. QED
      BY <2>1, <3>1
  <2>3. D \subseteq 1..Len(Extents[f])
    BY <2>1
  <2>. QED
    BY <2>2, <2>3, FS_Subset
<1>3. g \in Surjection(D, Size!FileExtents(f))
  BY DEF Surjection, Size!FileExtents, Size!Listed
<1>4. IsFiniteSet(Size!FileExtents(f))
  <2>. HIDE DEF g, D
  <2>. QED
    BY <1>2, <1>3, FS_Surjection
<1>5. \A i \in D : Extents[f][i][1] \in Int /\ Extents[f][i][2] \in Int /\ Extents[f][i][2] > 0
  BY <1>1
<1>6. ASSUME NEW e \in Size!FileExtents(f) PROVE e \in Extent /\ e.start < e.end
  <2>1. PICK i \in D : e = [start |-> Extents[f][i][1], end |-> Extents[f][i][1] + Extents[f][i][2]]
    BY DEF Size!FileExtents, Size!Listed
  <2>2. Extents[f][i][1] \in Int /\ Extents[f][i][2] \in Int /\ Extents[f][i][2] > 0
    BY <1>5
  <2>. QED
    BY <2>1, <2>2 DEF Extent
<1>. QED
  BY <1>4, <1>6

LEMMA ExtentsOnDev ==
    ASSUME NEW F \in SUBSET File, NEW dev
    PROVE  /\ IsFiniteSet(Size!ByDev(F, dev)) /\ Size!ByDev(F, dev) \subseteq Extent
           /\ \A e \in Size!ByDev(F, dev) : e.start < e.end
<1>. DEFINE Here == {g \in F : Device[g] = dev}
            T == {Size!FileExtents(f) : f \in Here}
            h == [f \in Here |-> Size!FileExtents(f)]
<1>1. IsFiniteSet(Here)
  BY LeakReportAssumption, FS_Subset
<1>2. h \in Surjection(Here, T)
  BY DEF Surjection
<1>3. IsFiniteSet(T)
  <2>. HIDE DEF h, T, Here
  <2>. QED
    BY <1>1, <1>2, FS_Surjection
<1>4. \A t \in T : IsFiniteSet(t) /\ t \subseteq Extent /\ \A e \in t : e.start < e.end
  BY ExtentsOfFile
<1>5. Size!ByDev(F, dev) = UNION T
  BY DEF Size!ByDev
<1>. HIDE DEF T
<1>6. IsFiniteSet(UNION T)
  BY <1>3, <1>4, FS_UNION
<1>. QED
  BY <1>4, <1>5, <1>6

(* The bytes of files, whatever sums them up: the blocks of the disks,     *)
(* counted.                                                                *)
LEMMA TotalIs ==
    ASSUME NEW F \in SUBSET File
    PROVE  IsFiniteSet(Size!UnitsRead(F)) /\ Size!Total(F) = Cardinality(Size!UnitsRead(F))
<1>. DEFINE S == {Device[f] : f \in F}
            op(dev) == Size!TotalOn(Size!ByDev(F, dev))
            ch(s) == CHOOSE x \in s : TRUE
            P(g) == g = [s \in SUBSET S |-> IF s = {} THEN 0 ELSE op(ch(s)) + g[s \ {ch(s)}]]
            G == CHOOSE g : P(g)
            f == [x \in S |-> op(x)]
            c == [s \in SUBSET S |-> ch(s)]
            Z == [x \in S |-> {x} \X Covered(Size!ByDev(F, x))]
<1>1. Size!Total(F) = G[S]
  BY DEF Size!Total, Size!MapThenSumSet, Size!MapThenFoldSet
<1>2. IsFiniteSet(S)
  <2>1. IsFiniteSet(F)
    BY LeakReportAssumption, FS_Subset
  <2>. DEFINE d == [x \in F |-> Device[x]]
  <2>2. d \in Surjection(F, S)
    BY DEF Surjection
  <2>. HIDE DEF d, S
  <2>. QED
    BY <2>1, <2>2, FS_Surjection
<1>3. \A s \in SUBSET S : s # {} => ch(s) \in s
  OBVIOUS
<1>4. \A x \in S : IsFiniteSet(Covered(Size!ByDev(F, x))) /\ op(x) = Cardinality(Covered(Size!ByDev(F, x)))
  BY ExtentsOnDev, TotalOnIs
<1>5. \A x \in S : IsFiniteSet(Z[x]) /\ f[x] = Cardinality(Z[x])
  <2>. SUFFICES ASSUME NEW x \in S PROVE IsFiniteSet(Z[x]) /\ f[x] = Cardinality(Z[x])
    OBVIOUS
  <2>. DEFINE K == Covered(Size!ByDev(F, x))
  <2>1. IsFiniteSet(K) /\ op(x) = Cardinality(K) /\ Cardinality(K) \in Nat
    <3>. HIDE DEF op
    <3>. QED
      BY <1>4, FS_CardinalityType
  <2>2. IsFiniteSet({x}) /\ Cardinality({x}) = 1
    BY FS_Singleton
  <2>3. Z[x] = {x} \X K /\ f[x] = op(x)
    OBVIOUS
  <2>. HIDE DEF Z, K, f, op
  <2>4. IsFiniteSet({x} \X K) /\ Cardinality({x} \X K) = 1 * Cardinality(K)
    BY <2>1, <2>2, FS_Product
  <2>. QED
    BY <2>1, <2>3, <2>4
<1>6. Picks(c, S) /\ Numbers(f, S) /\ Sizes(f, Z, S)
  <2>1. \A s \in SUBSET S : s # {} => c[s] \in s
    <3>. HIDE DEF ch
    <3>. QED
      BY <1>3
  <2>. HIDE DEF f, Z, c
  <2>. QED
    BY <1>2, <1>5, <2>1, FS_CardinalityType DEF Picks, Numbers, Sizes
<1>7. \E g : P(g)
  <2>1. \E g \in [SUBSET S -> Int] : Sums(g, f, c, S)
    <3>. HIDE DEF S, c, f
    <3>. QED
      BY <1>6, SumExists
  <2>2. PICK g \in [SUBSET S -> Int] : Sums(g, f, c, S)
    BY <2>1
  <2>3. ASSUME NEW s \in SUBSET S, s # {} PROVE g[s] = op(ch(s)) + g[s \ {ch(s)}]
    <3>1. c[s] = ch(s) /\ f[c[s]] = op(ch(s))
      <4>. HIDE DEF ch, op, S
      <4>. QED
        BY <1>3, <2>3
    <3>. HIDE DEF c, f, op, ch
    <3>. QED
      BY <2>2, <2>3, <3>1 DEF Sums
  <2>. HIDE DEF op, ch, c, f
  <2>4. P(g)
    BY <2>2, <2>3 DEF Sums
  <2>. HIDE DEF P
  <2>. QED
    BY <2>4
<1>8. P(G)
  <2>. HIDE DEF P
  <2>. QED
    BY <1>7
<1>9. Sums(G, f, c, S)
  <2>1. \A s \in SUBSET S : s # {} => c[s] = ch(s) /\ f[c[s]] = op(ch(s)) /\ ch(s) \in s
    <3>. HIDE DEF ch, op, S
    <3>. QED
      BY <1>3
  <2>2. \A s \in SUBSET S : G[s] = IF s = {} THEN 0 ELSE op(ch(s)) + G[s \ {ch(s)}]
    <3>. HIDE DEF G, op, ch, S
    <3>. QED
      BY <1>8
  <2>. HIDE DEF G, op, ch, S, c, f, P
  <2>. QED
    BY <2>1, <2>2 DEF Sums
<1>10. All(S, Z) = Size!UnitsRead(F)
  <2>1. \A x \in S : Z[x] = UNION {UNION {{x} \X (e.start..(e.end - 1)) : e \in Size!FileExtents(g)}
                                    : g \in {y \in F : Device[y] = x}}
    BY DEF Covered, Size!ByDev
  <2>. HIDE DEF Z
  <2>. QED
    BY <2>1 DEF All, Size!UnitsRead
<1>11. Disjoint(Z, S)
  BY DEF Disjoint
<1>12. IsFiniteSet(All(S, Z)) /\ Cardinality(All(S, Z)) = G[S]
  <2>. HIDE DEF S, Z, G, c, f, P
  <2>. QED
    BY <1>6, <1>9, <1>11, SumOfCards
<1>. QED
  <2>. HIDE DEF G, S, Z
  <2>. QED
    BY <1>1, <1>10, <1>12

(* What the rows of hits add up to is no less than what the hits that were *)
(* measured occupy, as far as it was read.                                 *)
KnownOf(H) == Size!UnitsRead(Reachable(UNION {Trees(h) : h \in {x \in H : Measured(x)}}))

LEMMA ReachableFiles ==
    ASSUME there \in SUBSET Tree, NEW T \in SUBSET Tree
    PROVE  Reachable(T) \in SUBSET File /\ FilesOf(T) \in SUBSET File
<1>1. \A t \in Tree : Inside(t) \in SUBSET Tree
  BY DEF Inside
<1>. QED
  BY <1>1, LeakReportAssumption DEF Reachable, FilesOf, Below

LEMMA RowSumBounds ==
    ASSUME there \in SUBSET Tree, NEW H, IsFiniteSet(H), \A h \in H : Trees(h) \in SUBSET Tree
    PROVE  /\ RowSum(H) \in Int
           /\ IsFiniteSet(KnownOf(H)) /\ Cardinality(KnownOf(H)) <= RowSum(H)
<1>. DEFINE ch(s) == CHOOSE x \in s : TRUE
            P(g) == g = [s \in SUBSET H |-> IF s = {} THEN 0 ELSE ItemSize(ch(s)) + g[s \ {ch(s)}]]
            G == CHOOSE g : P(g)
            f == [x \in H |-> ItemSize(x)]
            c == [s \in SUBSET H |-> ch(s)]
            Z == [x \in H |-> IF Measured(x) THEN Size!UnitsRead(Reachable(Trees(x))) ELSE {}]
<1>1. RowSum(H) = G[H]
  BY DEF RowSum, MapThenSumSet, MapThenFoldSet
<1>2. \A s \in SUBSET H : s # {} => ch(s) \in s
  OBVIOUS
<1>3. ASSUME NEW x \in H PROVE IsFiniteSet(Z[x]) /\ f[x] = Cardinality(Z[x])
  <2>1. CASE Measured(x)
    <3>1. Reachable(Trees(x)) \in SUBSET File
      BY ReachableFiles
    <3>2. /\ IsFiniteSet(Size!UnitsRead(Reachable(Trees(x))))
          /\ Size!Total(Reachable(Trees(x))) = Cardinality(Size!UnitsRead(Reachable(Trees(x))))
      BY <3>1, TotalIs
    <3>. QED
      BY <2>1, <3>2 DEF ItemSize, Size!UniqueAllocated
  <2>2. CASE ~Measured(x)
    BY <2>2, FS_EmptySet DEF ItemSize
  <2>. QED
    BY <2>1, <2>2
<1>4. \A x \in H : IsFiniteSet(Z[x]) /\ f[x] = Cardinality(Z[x])
  <2>. HIDE DEF f, Z
  <2>. QED
    BY <1>3
<1>5. Picks(c, H) /\ Numbers(f, H) /\ Sizes(f, Z, H)
  <2>1. \A s \in SUBSET H : s # {} => c[s] \in s
    <3>. HIDE DEF ch
    <3>. QED
      BY <1>2
  <2>. HIDE DEF f, Z, c
  <2>. QED
    BY <1>4, <2>1, FS_CardinalityType DEF Picks, Numbers, Sizes
<1>6. ASSUME NEW s \in SUBSET H, s # {} PROVE c[s] = ch(s) /\ f[c[s]] = ItemSize(ch(s))
  <2>. HIDE DEF ch
  <2>. QED
    BY <1>2, <1>6
<1>7. \E g \in [SUBSET H -> Int] : P(g)
  <2>1. \E g \in [SUBSET H -> Int] : Sums(g, f, c, H)
    <3>. HIDE DEF c, f
    <3>. QED
      BY <1>5, SumExists
  <2>2. PICK g \in [SUBSET H -> Int] : Sums(g, f, c, H)
    BY <2>1
  <2>. HIDE DEF ch, c, f
  <2>3. P(g)
    BY <1>6, <2>2 DEF Sums
  <2>. HIDE DEF P
  <2>. QED
    BY <2>3
<1>8. P(G)
  <2>. HIDE DEF P
  <2>. QED
    BY <1>7
<1>9. Sums(G, f, c, H)
  <2>1. \A s \in SUBSET H : G[s] = IF s = {} THEN 0 ELSE ItemSize(ch(s)) + G[s \ {ch(s)}]
    <3>. HIDE DEF G, ch
    <3>. QED
      BY <1>8
  <2>. HIDE DEF G, ch, c, f, P
  <2>. QED
    BY <1>6, <2>1 DEF Sums
<1>10. All(H, Z) = KnownOf(H)
  <2>1. ASSUME NEW F \in SUBSET SUBSET File
        PROVE  Size!UnitsRead(UNION F) = UNION {Size!UnitsRead(x) : x \in F}
    BY DEF Size!UnitsRead
  <2>. DEFINE M == {x \in H : Measured(x)}
  <2>2. Reachable(UNION {Trees(h) : h \in M}) = UNION {Reachable(Trees(h)) : h \in M}
    BY DEF Reachable, Below
  <2>3. All(H, Z) = UNION {Size!UnitsRead(Reachable(Trees(h))) : h \in M}
    BY DEF All
  <2>4. {Reachable(Trees(h)) : h \in M} \in SUBSET SUBSET File
    BY ReachableFiles
  <2>5. KnownOf(H) = Size!UnitsRead(UNION {Reachable(Trees(h)) : h \in M})
    BY <2>2 DEF KnownOf
  <2>. DEFINE FF == {Reachable(Trees(h)) : h \in M}
  <2>6. Size!UnitsRead(UNION FF) = UNION {Size!UnitsRead(x) : x \in FF}
    <3>. HIDE DEF FF
    <3>. QED
      BY <2>1, <2>4 DEF FF
  <2>7. UNION {Size!UnitsRead(x) : x \in FF} = UNION {Size!UnitsRead(Reachable(Trees(h))) : h \in M}
    OBVIOUS
  <2>. HIDE DEF Z, M
  <2>. QED
    BY <2>3, <2>5, <2>6, <2>7
<1>11. G[H] \in Int /\ IsFiniteSet(All(H, Z)) /\ Cardinality(All(H, Z)) <= G[H]
  <2>. HIDE DEF Z, G, c, f, P
  <2>. QED
    BY <1>5, <1>9, SumOfCards
<1>. QED
  <2>. HIDE DEF Z, G
  <2>. QED
    BY <1>1, <1>10, <1>11

(* In any state whose trees are trees, a report is true.                   *)
LEMMA SizesTrue ==
    ASSUME there \in SUBSET Tree
    PROVE  HeadlineIsUnion /\ PlanIsUpperBound
<1>. DEFINE AllTrees == UNION {Trees(h) : h \in AllHits}
            R == Reachable(UNION {Reached(h) : h \in AllHits})
<1>1. Siblings \in SUBSET Tree /\ Hits \in SUBSET Tree
  BY DEF Siblings, Of_, Hits
<1>2. Planned \subseteq AllHits /\ AllHits \subseteq Tree \cup {Fam}
  BY <1>1 DEF Planned, AllHits, FamilyHit, FamilyStale
<1>3. \A h \in AllHits : Trees(h) \in SUBSET Tree /\ Reached(h) \subseteq Trees(h)
  BY <1>1, <1>2 DEF Trees, Reached
<1>4. \A h : Measured(h) => Reached(h) = Trees(h)
  BY DEF Measured, Reached
<1>5. IsFiniteSet(Size!UnitsRead(R)) /\ Total = Cardinality(Size!UnitsRead(R))
  <2>1. UNION {Reached(h) : h \in AllHits} \in SUBSET Tree
    BY <1>3
  <2>2. R \in SUBSET File
    BY <2>1, ReachableFiles
  <2>3. Total = Size!Total(R)
    BY DEF Total
  <2>. HIDE DEF R
  <2>. QED
    BY <2>2, <2>3, TotalIs
<1>6. ASSUME Below(AllTrees) \subseteq Walked, \A f \in FilesOf(AllTrees) : Size!Whole(f)
      PROVE  Size!UnitsRead(R) = Size!Units(FilesOf(AllTrees))
  <2>1. AllTrees \subseteq Below(AllTrees)
    BY DEF Below, Inside
  <2>2. \A h \in AllHits : Reached(h) = Trees(h)
    BY <1>4, <1>6, <2>1 DEF Measured
  <2>3. R = FilesOf(AllTrees)
    BY <1>6, <2>2 DEF Reachable, FilesOf
  <2>4. FilesOf(AllTrees) \in SUBSET File
    BY <1>3, ReachableFiles
  <2>. HIDE DEF AllTrees, R
  <2>5. ASSUME NEW f \in FilesOf(AllTrees)
        PROVE  Size!FileExtents(f) = Size!Listed(f, Len(Extents[f]))
    <3>1. Extents[f] \in Seq(Int \X Int) /\ Mapped[f] \in Nat /\ Mapped[f] >= Len(Extents[f])
      BY <1>6, <2>4, LeakReportAssumption DEF Size!Whole
    <3>2. \A j \in DOMAIN Extents[f] : j <= Len(Extents[f]) /\ j <= Mapped[f]
      BY <3>1
    <3>. QED
      BY <3>2 DEF Size!FileExtents, Size!Listed
  <2>. QED
    BY <2>3, <2>5 DEF Size!UnitsRead, Size!Units
<1>7. Known = KnownOf(Planned)
  BY DEF Known, KnownOf
<1>8. Known \subseteq Size!UnitsRead(R)
  <2>. DEFINE M == {x \in Planned : Measured(x)}
              K == Reachable(UNION {Trees(h) : h \in M})
  <2>1. UNION {Trees(h) : h \in M} \subseteq UNION {Reached(h) : h \in AllHits}
    BY <1>2, <1>4
  <2>2. K \subseteq R
    BY <2>1 DEF Reachable, Below
  <2>3. Known = Size!UnitsRead(K)
    BY DEF Known
  <2>. HIDE DEF K, R
  <2>. QED
    BY <2>2, <2>3 DEF Size!UnitsRead
<1>9. RowSum(Planned) \in Int /\ IsFiniteSet(Known) /\ Cardinality(Known) <= RowSum(Planned)
  <2>1. IsFiniteSet(Tree \cup {Fam})
    BY LeakReportAssumption, FS_AddElement
  <2>2. IsFiniteSet(Planned) /\ \A h \in Planned : Trees(h) \in SUBSET Tree
    BY <1>2, <1>3, <2>1, FS_Subset
  <2>. QED
    BY <1>7, <2>2, RowSumBounds
<1>. HIDE DEF R
<1>10. Cardinality(Known) <= Total /\ Total \in Nat
  BY <1>5, <1>8, FS_Subset, FS_CardinalityType
<1>11. /\ Cardinality(Freed \cap Known) <= Cardinality(Known)
       /\ Cardinality(Freed \cap Known) \in Nat /\ Cardinality(Known) \in Nat
  <2>1. Freed \cap Known \subseteq Known
    OBVIOUS
  <2>. QED
    BY <1>9, <2>1, FS_Subset, FS_CardinalityType
<1>12. PlannedBytes \in {RowSum(Planned), Total}
  <2>1. RowSum(Planned) <= Total \/ Total <= RowSum(Planned)
    BY <1>9, <1>10
  <2>. DEFINE M == {RowSum(Planned), Total}
  <2>2. \E x \in M : \A y \in M : x <= y
    BY <1>9, <1>10, <2>1
  <2>. HIDE DEF M
  <2>3. PlannedBytes \in M
    BY <2>2 DEF PlannedBytes, Min, M
  <2>. QED
    BY <2>3 DEF M
<1>. QED
  <2>1. HeadlineIsUnion
    BY <1>5, <1>6 DEF HeadlineIsUnion, R
  <2>2. PlanIsUpperBound
    BY <1>9, <1>10, <1>11, <1>12 DEF PlanIsUpperBound
  <2>. QED
    BY <2>1, <2>2

-----------------------------------------------------------------------------
(* Names. *)

(* A beginning of a name. *)
LEMMA Beginning ==
    ASSUME NEW q \in Seq(Name!Char), NEW n \in 0..Len(q)
    PROVE  /\ SubSeq(q, 1, n) \in Seq(Name!Char) /\ Len(SubSeq(q, 1, n)) = n
           /\ \A i \in 1..n : SubSeq(q, 1, n)[i] = q[i]
<1>1. n \in Int /\ 1 \in Int /\ \A i \in 1..n : q[i] \in Name!Char
  BY ElementOfSeq, LenProperties
<1>2. /\ SubSeq(q, 1, n) \in Seq(Name!Char)
      /\ Len(SubSeq(q, 1, n)) = IF 1 <= n THEN n - 1 + 1 ELSE 0
      /\ \A i \in 1..(n - 1 + 1) : SubSeq(q, 1, n)[i] = q[1 + i - 1]
  BY <1>1, SubSeqProperties
<1>3. n - 1 + 1 = n /\ \A i \in 1..n : 1 + i - 1 = i
  BY <1>1
<1>. QED
  BY <1>1, <1>2, <1>3

(* Taking a separator away and putting it back. *)
LEMMA SplitParts ==
    ASSUME NEW q \in Seq(Name!Char), q # <<>>, NEW least \in {0, 1}
    PROVE  LET k == Name!Split(q, least) IN
           /\ k.ok /\ k.prefix \in Seq(Name!Char)
           /\ Len(q) > least /\ q[Len(q)] = "sep"
                => k.sep = <<"sep">> /\ Len(k.prefix) = Len(q) - 1 /\ Name!handle(k) = q
           /\ ~(Len(q) > least /\ q[Len(q)] = "sep") => k.sep = <<>> /\ k.prefix = q /\ Name!handle(k) = q
<1>. DEFINE k == Name!Split(q, least)
<1>1. Len(q) \in Nat /\ Len(q) >= 1 /\ Name!Last(q) = q[Len(q)]
  BY DEF Name!Last
<1>2. CASE Len(q) > least /\ q[Len(q)] = "sep"
  <2>1. k = [ok |-> TRUE, prefix |-> SubSeq(q, 1, Len(q) - 1), sep |-> <<"sep">>]
    BY <1>1, <1>2 DEF Name!Split, Name!Front
  <2>. DEFINE p == SubSeq(q, 1, Len(q) - 1)
  <2>2. p \in Seq(Name!Char) /\ Len(p) = Len(q) - 1 /\ \A i \in 1..Len(p) : p[i] = q[i]
    <3>1. Len(q) - 1 \in 0..Len(q)
      BY <1>1
    <3>. QED
      BY <3>1, Beginning
  <2>. HIDE DEF p
  <2>3. Len(p \o <<"sep">>) = Len(q) /\ \A i \in 1..Len(q) : (p \o <<"sep">>)[i] = q[i]
    BY <1>1, <1>2, <2>2
  <2>4. p \o <<"sep">> = q
    BY <1>1, <2>2, <2>3
  <2>5. k.ok /\ k.prefix = p /\ k.sep = <<"sep">>
    <3>. HIDE DEF k
    <3>. QED
      BY <2>1 DEF p
  <2>. HIDE DEF k
  <2>6. Name!handle(k) = q
    BY <2>4, <2>5 DEF Name!handle
  <2>7. /\ k.ok /\ k.prefix \in Seq(Name!Char)
        /\ k.sep = <<"sep">> /\ Len(k.prefix) = Len(q) - 1 /\ Name!handle(k) = q
    BY <2>2, <2>5, <2>6
  <2>. QED
    BY <1>2, <2>7 DEF k
<1>3. CASE ~(Len(q) > least /\ q[Len(q)] = "sep")
  <2>1. k = [ok |-> TRUE, prefix |-> q, sep |-> <<>>]
    BY <1>1, <1>3 DEF Name!Split
  <2>2. q \o <<>> = q
    OBVIOUS
  <2>. HIDE DEF k
  <2>. QED
    BY <1>3, <2>1, <2>2 DEF Name!handle, k
<1>. QED
  BY <1>2, <1>3

LEMMA LastOfIn ==
    ASSUME NEW n \in Nat, NEW name \in [1..n -> Name!Char], NEW S
    PROVE  Name!LastOf(name, S) \in 0..n
<1>. DEFINE T == {0} \cup {i \in DOMAIN name : name[i] \in S}
<1>1. T \in SUBSET (0..n) /\ T # {}
  OBVIOUS
<1>. HIDE DEF T
<1>2. Max(T) \in T
  BY <1>1, MaxBounds
<1>. QED
  BY <1>1, <1>2 DEF Name!LastOf, Name!Max, Max, T

(* Whatever the length of names and of the random suffix, a family is      *)
(* found again from the handle its suggestion carries, unless its prefix   *)
(* is one separator (family.go:82-97, 157-169).                            *)
THEOREM HandleFindsFamily == HandleNamesItsFamily
<1>. DEFINE key(name) == Name!familyKeyOf(name)
<1>1. SUFFICES ASSUME NEW n \in 1..MaxLen, NEW name \in [1..n -> Name!Char],
                      key(name).ok, key(name).prefix # <<"sep">>
               PROVE  Name!parseFamilyHandle(Name!handle(key(name))) = key(name)
  BY DEF HandleNamesItsFamily, Name!HandleNamesItsFamily, Name!Names
<1>. DEFINE d == Name!LastOf(name, Name!Char \ {"digit"})
            i == Name!LastOf(name, {"sep"})
<1>2. n \in Nat /\ name \in Seq(Name!Char) /\ Len(name) = n
  BY LeakReportAssumption
<1>3. d \in 0..n /\ i \in 0..n
  BY <1>2, LastOfIn
<1>. HIDE DEF d, i
<1>4. CASE d >= 1 /\ key(name) = Name!Split(SubSeq(name, 1, d), 1)
  <2>. DEFINE q == SubSeq(name, 1, d)
  <2>1. q \in Seq(Name!Char) /\ Len(q) = d /\ q # <<>>
    BY <1>2, <1>3, <1>4
  <2>. HIDE DEF q
  <2>2. LET k == Name!Split(q, 1) IN
           /\ k.ok /\ k.prefix \in Seq(Name!Char)
           /\ Len(q) > 1 /\ q[Len(q)] = "sep"
                => k.sep = <<"sep">> /\ Len(k.prefix) = Len(q) - 1 /\ Name!handle(k) = q
           /\ ~(Len(q) > 1 /\ q[Len(q)] = "sep") => k.sep = <<>> /\ k.prefix = q /\ Name!handle(k) = q
    BY <2>1, SplitParts
  <2>3. Name!handle(key(name)) = q
    BY <1>4, <2>2 DEF q
  <2>4. Name!Split(q, 0) = Name!Split(q, 1)
    <3>1. CASE Len(q) > 1
      BY <2>1, <3>1 DEF Name!Split
    <3>2. CASE ~(Len(q) > 1)
      <4>1. Len(q) = 1 /\ q = <<q[1]>>
        BY <2>1, <3>2
      <4>2. Name!Split(q, 1).prefix = q
        BY <2>2, <3>2
      <4>3. q[1] # "sep"
        BY <1>1, <1>4, <4>1, <4>2 DEF q
      <4>. QED
        BY <4>1, <4>3 DEF Name!Split, Name!Last
    <3>. QED
      BY <3>1, <3>2
  <2>5. Name!Split(q, 0).prefix # <<>>
    <3>1. Len(Name!Split(q, 1).prefix) >= 1
      BY <2>1, <2>2
    <3>. QED
      BY <2>4, <3>1
  <2>. QED
    BY <1>4, <2>1, <2>3, <2>4, <2>5 DEF Name!parseFamilyHandle, q
<1>5. CASE i > 1 /\ key(name) = [ok |-> TRUE, prefix |-> SubSeq(name, 1, i - 1), sep |-> <<"sep">>]
  <2>. DEFINE p == SubSeq(name, 1, i - 1)
              one == <<"sep">>
              q == p \o one
              k == [ok |-> TRUE, prefix |-> p, sep |-> one]
  <2>1. p \in Seq(Name!Char) /\ Len(p) = i - 1 /\ i - 1 >= 1 /\ i \in Int
    BY <1>2, <1>3, <1>5
  <2>2. k.prefix = p /\ k.sep = one
    <3>. HIDE DEF p, one
    <3>. QED
      OBVIOUS
  <2>3. Name!handle(k) = q
    <3>. HIDE DEF k, p, one
    <3>. QED
      BY <2>2 DEF Name!handle
  <2>4. q # <<>> /\ Len(q) = i /\ q[i] = "sep" /\ SubSeq(q, 1, i - 1) = p
    <3>. HIDE DEF p
    <3>. QED
      BY <2>1
  <2>5. Name!Split(q, 0) = k
    <3>. HIDE DEF p, one, q
    <3>1. Len(q) > 0 /\ Name!Last(q) = "sep" /\ Name!Front(q) = p
      BY <2>1, <2>4 DEF Name!Last, Name!Front
    <3>2. Name!Split(q, 0) = [ok |-> TRUE, prefix |-> Name!Front(q), sep |-> <<"sep">>]
      BY <3>1 DEF Name!Split
    <3>. QED
      BY <3>1, <3>2 DEF one
  <2>6. p # <<>>
    <3>. HIDE DEF p
    <3>. QED
      BY <2>1
  <2>7. Name!parseFamilyHandle(q) = k
    <3>. HIDE DEF p, one, q, k
    <3>. QED
      BY <2>2, <2>4, <2>5, <2>6 DEF Name!parseFamilyHandle
  <2>8. key(name) = k
    BY <1>5
  <2>. HIDE DEF k, q, key
  <2>. QED
    BY <2>3, <2>7, <2>8
<1>6. \/ d >= 1 /\ key(name) = Name!Split(SubSeq(name, 1, d), 1)
      \/ i > 1 /\ key(name) = [ok |-> TRUE, prefix |-> SubSeq(name, 1, i - 1), sep |-> <<"sep">>]
      \/ key(name) = Name!NoKey
  BY DEF Name!familyKeyOf, d, i
<1>. QED
  BY <1>1, <1>4, <1>5, <1>6 DEF Name!NoKey

(* For all trees, files, extents and volumes, whatever walks and listings  *)
(* fail: the headline of a report is the union of the blocks read of below *)
(* the hits, all of them when nothing failed; of the blocks its rows know  *)
(* of, `leaks clean` frees no more than it announces; and a family is      *)
(* found by its handle (extent_darwin.go:70-121, 164-178, 296-301,         *)
(* module.go:277-282, leaks_cmd.go:67-77, family.go:82-97).                *)
THEOREM ReportTrue == Spec => []ReportIsTrue
<1>1. TypeOK => ReportIsTrue
  <2>1. TypeOK => there \in SUBSET Tree
    BY DEF TypeOK
  <2>. QED
    BY <2>1, SizesTrue, HandleFindsFamily DEF ReportIsTrue
<1>. QED
  BY <1>1, TypeCorrect, PTL
=============================================================================
