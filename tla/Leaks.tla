------------------------------- MODULE Leaks -------------------------------
(***************************************************************************)
(* The leaks module: signatures of directories programs leave behind, each *)
(* with a rule that says when a hit is stale, re-established at apply time *)
(* step by step while the programs run.                                    *)
(*                                                                         *)
(*   clone     no row of lsof, or launch causality over its rows           *)
(*   aged      newest mtime past min_age, and no row                       *)
(*   session   the agent session dead, an hour quiet, and no row           *)
(*   entry     of a live session's scratchpad: a day quiet, and no row     *)
(*   member    of a family: enough siblings, all quiet, plain files only,  *)
(*             none open; at apply time each member is proved by itself    *)
(*                                                                         *)
(* Time is counted in units of the causality margin.  Every clone holds a  *)
(* hard link to the one launcher, so lsof, which matches inodes, lists     *)
(* every running instance under every clone.                               *)
(***************************************************************************)
EXTENDS Integers, FiniteSets, FiniteSetsExt

CONSTANTS
    Tree,
    Kind,       \* Kind[t]: the rule of t's signature
    Parent,     \* Parent[t]: the session an entry lies in, None for others
    Fam,        \* the handle of the members' family
    Proc,       \* instances of the program that makes clones
    Gate,       \* Gate[k]: min_age, dead_after or entry_idle of a kind
    Margin,     \* causalMargin
    Delay,      \* how long after its start an instance may make its clone
    MinMembers,
    Scenes,     \* the sets of trees there may be at first
    Sweeper,
    None,
    Start,      \* the time at first
    MaxTime,    \* bound: the clock
    MaxFaults,  \* bound: failing probes, walks and removals, and crashes
    MaxUser     \* bound: steps of the programs

Kinds  == {"clone", "aged", "session", "entry", "member"}
Labels == {"idle", "next", "member", "session", "age", "probe", "causal", "remove"}
Fact   == {"quiet", "unheld", "dead", "orphan", "plain"}

ASSUME LeaksAssumption ==
    /\ Kind \in [Tree -> Kinds] /\ Parent \in [Tree -> Tree \cup {None}]
    /\ Gate \in [Kinds -> Nat] /\ Margin \in Nat /\ Delay \in Nat /\ Delay <= Margin
    /\ MinMembers \in Nat /\ Start \in Nat /\ MaxTime \in Nat
    /\ MaxFaults \in Nat /\ MaxUser \in Nat /\ None \notin Tree /\ Fam \notin Tree
    /\ Start <= MaxTime /\ Scenes \subseteq SUBSET Tree
    /\ \A t \in Tree : Parent[t] # None => Kind[t] = "entry"

VARIABLES
    now,
    there, gone,    \* the trees that exist; those that were removed as targets
    born, mtime,
    held,           \* the trees a process has a plain file open in
    alive,          \* the sessions a process or a transcript speaks for
    special,        \* the members with a socket, a pipe or a device in them
    proc,           \* [Proc -> its start, its clone, whether it runs from it]
    job, seen,      \* what each sweeper is doing; history of the facts
    faults, user

world == <<now, there, gone, born, mtime, held, alive, special, proc>>
vars  == <<world, job, seen, faults, user>>

Of_(k)    == {t \in Tree : Kind[t] = k}
Inside(t) == {t} \cup {e \in there : Parent[e] = t}
NoProc    == [run |-> FALSE, start |-> 0, clone |-> None, exe |-> FALSE]
NoJob     == [at |-> "idle", todo |-> {}, rest |-> {}, tree |-> None]

(* A running instance was started at most Delay before its clone was made. *)
Init ==
    /\ now = Start /\ gone = {} /\ there \in Scenes
    /\ born \in [Tree -> 0..Start] /\ \A t \in Tree : t \notin there => born[t] = 0
    /\ mtime \in [Tree -> 0..Start]
    /\ \A t \in Tree : Kind[t] = "clone" => mtime[t] = born[t]
    /\ \A t \in Tree : Kind[t] # "clone" => born[t] = 0 /\ (t \notin there => mtime[t] = 0)
    /\ held = {} /\ alive \in SUBSET (Of_("session") \cap there)
    /\ special \in SUBSET (Of_("member") \cap there)
    /\ proc \in [Proc -> {NoProc} \cup
                    {[run |-> TRUE, start |-> s, clone |-> c, exe |-> TRUE] :
                        s \in 0..Start, c \in Of_("clone") \cap there}]
    /\ \A p \in Proc : proc[p].run =>
          /\ proc[p].start <= born[proc[p].clone]
          /\ born[proc[p].clone] <= proc[p].start + Delay
    /\ \A p, q \in Proc : proc[p].run /\ proc[q].run /\ p # q => proc[p].clone # proc[q].clone
    /\ job = [s \in Sweeper |-> NoJob] /\ seen = [s \in Sweeper |-> {}]
    /\ faults = 0 /\ user = 0

-----------------------------------------------------------------------------
(* What the module reads. *)

Newest(t) == Max({mtime[x] : x \in Inside(t)})
OldEnough(t) == now - Newest(t) >= Gate[Kind[t]]

(* lsof +D: the instances that run from the launcher, and plain files. *)
Rows(t) ==
    (IF Kind[t] = "clone" THEN {[fd |-> "txt", start |-> proc[p].start] :
                                   p \in {q \in Proc : proc[q].run /\ proc[q].exe}} ELSE {})
        \cup {[fd |-> "file", start |-> 0] : x \in Inside(t) \cap held}

(* Mutants: only what started after the tree counts; nothing older than    *)
(* the tree may run.                                                       *)
BornAfter(r, birth)  == r.start >= birth /\ r.start - birth <= Margin
NotYounger(r, birth) == r.start - birth <= Margin

BornWith(r, birth) == r.start - birth >= -Margin /\ r.start - birth <= Margin

CausalStale(rows, birth) ==
    \/ rows = {}
    \/ /\ now - birth >= Margin
       /\ \A r \in rows : r.fd = "txt" /\ ~BornWith(r, birth)

Stale(t) ==
    /\ Kind[t] = "session" => t \notin alive
    /\ Kind[t] # "clone" => OldEnough(t)
    /\ Rows(t) = {} \/ (Kind[t] = "clone" /\ CausalStale(Rows(t), born[t]))

Siblings == Of_("member") \cap there

(* The family is one hit: one age, one listing of open files, and plain    *)
(* scratch in every member.                                                *)
Plain(t) == t \notin special
FamilyStale ==
    /\ Cardinality(Siblings) >= MinMembers
    /\ \A t \in Siblings : Plain(t) /\ OldEnough(t) /\ t \notin held

(* Scratch entries are offered one by one while their session lives. *)
Hits == {t \in there : /\ Kind[t] # "member"
                       /\ Kind[t] = "entry" => Parent[t] \in alive}

Planned == {t \in Hits : Stale(t)} \cup (IF FamilyStale THEN {Fam} ELSE {})

-----------------------------------------------------------------------------
(* The sweeper. *)

At(s, l)   == job[s].at = l
Of(s)      == job[s].tree
Goto(s, l) == job' = [job EXCEPT ![s].at = l]
Frame      == UNCHANGED <<world, faults, user>>

(* Mutant: the tree stays at hand. *)
KeepAt(j) == [j EXCEPT !.at = IF j.rest # {} THEN "member" ELSE IF j.todo # {} THEN "next" ELSE "idle"]

After(j) == [j EXCEPT !.tree = None,
                      !.at = IF j.rest # {} THEN "member" ELSE IF j.todo # {} THEN "next" ELSE "idle"]
Leave(s) == job' = [job EXCEPT ![s] = After(job[s])]

Scan(s) ==
    /\ At(s, "idle") /\ Planned # {}
    /\ job' = [job EXCEPT ![s] = [at |-> "next", todo |-> Planned, rest |-> {}, tree |-> None]]
    /\ Frame

First(t) == CASE Kind[t] = "session" -> "session" [] Kind[t] = "clone" -> "probe" [] OTHER -> "age"

(* signatureFor, Lstat; a handle is resolved to the members there are now. *)
Turn(s) ==
    /\ At(s, "next")
    /\ \E x \in job[s].todo :
          LET j == [job[s] EXCEPT !.todo = @ \ {x}] IN
          job' = [job EXCEPT ![s] =
             IF x = Fam THEN After([j EXCEPT !.rest =
                                IF Cardinality(Siblings) >= MinMembers THEN Siblings ELSE {}])
             ELSE IF x \notin there THEN After(j)
             ELSE [j EXCEPT !.tree = x, !.at = First(x)]]
    /\ Frame

Member(s) ==
    /\ At(s, "member")
    /\ \E t \in job[s].rest :
          LET j == [job[s] EXCEPT !.rest = @ \ {t}] IN
          job' = [job EXCEPT ![s] = IF t \notin there THEN After(j)
                                    ELSE [j EXCEPT !.tree = t, !.at = "age"]]
    /\ Frame

(* A tree that is gone cannot be walked: every read of it refuses. *)
Read(s, here, good, then) ==
    /\ At(s, here)
    /\ IF Of(s) \in there /\ good THEN Goto(s, then) ELSE Leave(s)
    /\ Frame

Session(s) == At(s, "session") /\ Read(s, "session", Of(s) \notin alive, "age")
Age(s)     == At(s, "age")     /\ Read(s, "age", Plain(Of(s)) /\ OldEnough(Of(s)), "probe")
Causal(s)  == At(s, "causal")  /\ Read(s, "causal", CausalStale(Rows(Of(s)), born[Of(s)]), "remove")
Probe(s) ==
    /\ At(s, "probe")
    /\ IF Of(s) \notin there \/ (Rows(Of(s)) # {} /\ Kind[Of(s)] # "clone") THEN Leave(s)
       ELSE Goto(s, IF Rows(Of(s)) = {} THEN "remove" ELSE "causal")
    /\ Frame

(* RemoveAll: nil for what is gone already. *)
Remove(s) ==
    /\ At(s, "remove")
    /\ there' = there \ Inside(Of(s)) /\ gone' = gone \cup ({Of(s)} \cap there)
    /\ held' = held \ Inside(Of(s)) /\ alive' = alive \ {Of(s)}
    /\ special' = special \ {Of(s)}
    /\ Leave(s)
    /\ UNCHANGED <<now, born, mtime, proc, faults, user>>

Sweep(s) ==
    \/ Scan(s) \/ Turn(s) \/ Member(s) \/ Session(s) \/ Age(s) \/ Probe(s)
    \/ Causal(s) \/ Remove(s)

(* lsof times out, a walk errs, RemoveAll fails: the target is left.  Or   *)
(* the process dies.                                                       *)
Fail(s) ==
    /\ faults < MaxFaults /\ faults' = faults + 1 /\ ~At(s, "idle")
    /\ \/ Of(s) # None /\ Leave(s)
       \/ job' = [job EXCEPT ![s] = NoJob]
    /\ UNCHANGED <<world, user>>

-----------------------------------------------------------------------------
(* The programs. *)

Launch(p) ==
    /\ ~proc[p].run
    /\ proc' = [proc EXCEPT ![p] = [run |-> TRUE, start |-> now, clone |-> None, exe |-> FALSE]]
    /\ UNCHANGED <<there, born, mtime, held, alive, special>>

MakeClone(p, t) ==
    /\ proc[p].run /\ proc[p].clone = None /\ now - proc[p].start <= Delay
    /\ Kind[t] = "clone" /\ t \notin there \cup gone
    /\ proc' = [proc EXCEPT ![p].clone = t]
    /\ there' = there \cup {t}
    /\ born' = [born EXCEPT ![t] = now] /\ mtime' = [mtime EXCEPT ![t] = now]
    /\ UNCHANGED <<held, alive, special>>

Exec(p) ==
    /\ proc[p].run /\ ~proc[p].exe /\ proc[p].clone \in there
    /\ proc' = [proc EXCEPT ![p].exe = TRUE]
    /\ UNCHANGED <<there, born, mtime, held, alive, special>>

(* Quit or killed: the clone stays. *)
Quit(p) ==
    /\ proc[p].run /\ proc' = [proc EXCEPT ![p] = NoProc]
    /\ UNCHANGED <<there, born, mtime, held, alive, special>>

Write(t) ==
    /\ t \in there /\ Kind[t] # "clone" /\ mtime[t] # now
    /\ mtime' = [mtime EXCEPT ![t] = now]
    /\ UNCHANGED <<there, born, held, alive, special, proc>>

(* A socket, pipe or device comes or goes: its directory is written to.    *)
BindOrUnlink(t) ==
    /\ t \in Siblings
    /\ special' = IF t \in special THEN special \ {t} ELSE special \cup {t}
    /\ mtime' = [mtime EXCEPT ![t] = now]
    /\ UNCHANGED <<there, born, held, alive, proc>>

OpenOrClose(t) ==
    /\ t \in there
    /\ held' = IF t \in held THEN held \ {t} ELSE held \cup {t}
    /\ UNCHANGED <<there, born, mtime, alive, special, proc>>

EndOrResume(t) ==
    /\ t \in there /\ Kind[t] = "session"
    /\ alive' = IF t \in alive THEN alive \ {t} ELSE alive \cup {t}
    /\ UNCHANGED <<there, born, mtime, held, special, proc>>

Mint(t) ==
    /\ Kind[t] = "member" /\ Siblings # {} /\ t \notin there \cup gone
    /\ there' = there \cup {t} /\ mtime' = [mtime EXCEPT ![t] = now]
    /\ UNCHANGED <<born, held, alive, special, proc>>

Programs ==
    /\ user < MaxUser /\ user' = user + 1
    /\ \/ \E p \in Proc : Launch(p) \/ Exec(p) \/ Quit(p) \/ \E t \in Tree : MakeClone(p, t)
       \/ \E t \in Tree : Write(t) \/ OpenOrClose(t) \/ EndOrResume(t) \/ Mint(t)
                          \/ BindOrUnlink(t)
    /\ UNCHANGED <<now, gone, job, faults>>

Tick ==
    /\ now < MaxTime /\ now' = now + 1
    /\ UNCHANGED <<there, gone, born, mtime, held, alive, special, proc, job, faults, user>>

-----------------------------------------------------------------------------
(* The facts, as they are in the world. *)
Holds(t) == {f \in Fact :
    CASE f = "quiet"  -> \A x \in Inside(t) : mtime[x] + Gate[Kind[t]] <= now
      [] f = "unheld" -> Inside(t) \cap held = {}
      [] f = "dead"   -> t \notin alive
      [] f = "plain"  -> Plain(t)
      [] f = "orphan" -> \A p \in Proc : ~(proc[p].run /\ proc[p].exe /\ proc[p].clone = t)}

Proof == [t \in Tree |-> CASE Kind[t] = "clone"   -> {{"orphan", "unheld"}}
                           [] Kind[t] = "session" -> {{"dead", "quiet", "unheld"}}
                           [] Kind[t] = "member"  -> {{"plain", "quiet", "unheld"}}
                           [] OTHER               -> {{"quiet", "unheld"}}]

Watch == seen' = [s \in Sweeper |->
            IF job'[s].tree = None THEN {}
            ELSE (IF job[s].tree = job'[s].tree THEN seen[s] ELSE {})
                     \cup UNION {Holds(t)' : t \in {x \in Tree : x = job'[s].tree}}]

Next ==
    /\ \/ \E s \in Sweeper : Sweep(s) \/ Fail(s)
       \/ Programs
       \/ Tick
    /\ Watch

Spec == Init /\ [][Next]_vars

(* The daemon ticks every day, and time goes on. *)
FairSpec == Spec /\ WF_vars(Tick /\ Watch) /\ \A s \in Sweeper : WF_vars(Sweep(s) /\ Watch)

-----------------------------------------------------------------------------
TypeOK ==
    /\ now \in 0..MaxTime /\ there \subseteq Tree /\ gone \subseteq Tree \ there
    /\ born \in [Tree -> 0..now] /\ mtime \in [Tree -> 0..now]
    /\ held \subseteq there /\ alive \subseteq Of_("session") \cap there
    /\ special \subseteq Siblings
    /\ proc \in [Proc -> [run : BOOLEAN, start : 0..now, clone : Tree \cup {None}, exe : BOOLEAN]]
    /\ job \in [Sweeper -> [at : Labels, todo : SUBSET (Tree \cup {Fam}),
                            rest : SUBSET Of_("member"), tree : Tree \cup {None}]]
    /\ \A s \in Sweeper : (Of(s) = None) <=> job[s].at \in {"idle", "next", "member"}
    /\ seen \in [Sweeper -> SUBSET Fact]
    /\ faults \in 0..MaxFaults /\ user \in 0..MaxUser

(* A hit is removed only when, since the sweeper turned to it at apply     *)
(* time, every fact of its rule has been true: quiet past its gate, no     *)
(* plain file open in it, a family's member plain scratch, its session     *)
(* dead, no instance running that was started for it ("a hit that went     *)
(* live between Plan and Apply is refused", leaks/module.go:164-207;       *)
(* family.go:337-411; causality.go:28-62).                                 *)
Promise == INSTANCE Deleter WITH
    Agent <- Sweeper, Target <- Tree, Proofs <- Proof,
    holds <- [t \in Tree |-> Holds(t)],
    here  <- Tree \ gone,
    cur   <- [s \in Sweeper |-> {Of(s)} \ {None}]
KeepsPromise == Promise!Spec

Running(p) == proc[p].run /\ proc[p].exe

(* What is left behind for good: no part of its rule stands in the way,    *)
(* and for a clone, none of the instances that run was started when it was *)
(* made.                                                                   *)
Dead(t) ==
    /\ t \in there /\ Inside(t) \cap held = {}
    /\ CASE Kind[t] = "clone"  -> /\ born[t] + Margin <= now
                                  /\ \A p \in Proc : Running(p) =>
                                        \/ proc[p].start + Margin < born[t]
                                        \/ born[t] + Margin < proc[p].start
         [] Kind[t] = "member" -> /\ Cardinality(Siblings) >= MinMembers
                                  /\ \A x \in Siblings : {"quiet", "unheld", "plain"} \subseteq Holds(x)
         [] Kind[t] = "entry"  -> "quiet" \in Holds(t) /\ Parent[t] \in alive
         [] OTHER              -> "quiet" \in Holds(t) /\ t \notin alive

(* What is dead and stays dead goes: 48 clones of dead instances must not  *)
(* be held hostage by a running one (causality.go:13-42), nor an idle      *)
(* entry by its live session (module.go:99-102), nor a family by a member  *)
(* whose removal failed.                                                   *)
DeadGoes == \A t \in Tree : ~ <>[] Dead(t)

(* "It doubles as the youth gate: a tree younger than the margin is never  *)
(* judged -- its creating launch may still be mid-flight"                  *)
(* (causality.go:60-62).  Not so of a clone that no process runs from yet, *)
(* and checked by no run (README, section 5).                              *)
NeverJudgedYoung ==
    [][\A t \in gone' \ gone : Kind[t] = "clone" => now - born[t] >= Margin]_vars
=============================================================================
