------------------------------ MODULE Cleaners ------------------------------
(***************************************************************************)
(* One command of a user that removes, kills or disables what it has       *)
(* listed: `caches clean`, `dev clean`, `apps clean`, `orphans kill`,      *)
(* `startup disable` and `startup restore`.  All run one loop (scan, plan, *)
(* ask, and for each action apply and audit) over five cleanup modules,    *)
(* step by step, beside the programs and the user of the machine, who may  *)
(* press Ctrl-C: that cancels the context and stops nothing else.          *)
(*                                                                         *)
(* The order of the actions is left open, and of the bytes a removal       *)
(* measures nothing is said.                                               *)
(***************************************************************************)
EXTENDS Orphans, AppIndex, FiniteSetsExt

CONSTANTS
    Trees,          \* Trees[c]: the sets of paths there may be at first
    File,           \* the paths that are plain files
    Size,           \* Size[p]: the bytes of a file
    Inode,          \* Inode[p]: of a file; hard links have one
    Sealed,         \* the paths that cannot be opened
    CacheDirs, ReportOnly, CacheRoots,
    ScanRoots, Targets,
    LibraryRoots, Curated, Excluded,    \* Curated[p]: the app p belongs to
    Key,            \* Key[n]: the tokens of a directory name
    Alien,          \* the paths another user owns
    MinSize,
    Service,
    Moving,         \* Moving[c]: the parts of the world a command depends on
    MaxFaults,      \* bound: failing removals, table reads, launchctl calls, log writes, kills
    MaxUser         \* bound: steps of the world, Ctrl-C among them

Commands == {"caches", "dev", "apps", "orphans", "disable", "restore"}
Parts    == {"files", "apps", "processes", "services"}
Paths    == UNION UNION {Trees[c] : c \in Commands}
AppDirs  == {d \in Paths : d \in DOMAIN Curated \/ Front(d) \in LibraryRoots}
Labels   == {"start", "ask", "next", "check", "clear", "mdfind", "folders", "stat", "unique",
             "remove", "verify", "term", "grace", "kill", "mourn", "bootout", "disable",
             "enable", "audit", "end"}
Thing    == Paths \cup Pid \cup Service
Fact     == {"unspotted", "unlisted", "idle", "large", "plain", "orphan"}

ASSUME CleanersAssumption ==
    /\ MinSize \in Nat /\ MaxFaults \in Nat /\ MaxUser \in Nat
    /\ <<>> \notin Paths /\ Paths \subseteq Seq(UNION {ToSet(p) : p \in Paths})
    /\ Paths \cap Pid = {} /\ Moving \in [Commands -> SUBSET Parts]
    /\ IsFiniteSet(Paths) /\ \A q \in Paths \cap File : Size[q] \in Nat
    /\ \A p, q \in Paths \cap File : Inode[p] = Inode[q] => Size[p] = Size[q]
    /\ CacheDirs \cup ScanRoots \subseteq Paths
    /\ \A c \in Commands : \A T \in Trees[c] : \A p \in T : Front(p) \in (T \ File) \cup {<<>>}

VARIABLES
    tree,               \* the paths that exist
    fresh,              \* the app directories that have, where they can be read, been
                        \* written to in the last 30 days
    spotted, listed,    \* the apps Spotlight knows; those in the app folders
    blind,              \* Spotlight does not answer
    loaded, enabled,    \* services
    job,                \* what the command is doing
    vouched, late,      \* history: pids whose process verify approved of; those
                        \* given out since
    struck,             \* history: what the current action has hit
    unlogged,           \* history: what was hit and is not audited, for no fault
    seen,               \* history of the facts
    faults, user

files    == <<tree, fresh>>
appworld == <<spotted, listed, blind>>
services == <<loaded, enabled>>
past     == <<vouched, late, struck, unlogged>>
world    == <<files, appworld, proc, services>>
vars     == <<world, job, past, seen, faults, user>>

(* A command with nothing in hand. *)
Job(c, l) == [cmd |-> c, at |-> l, todo |-> {}, cur |-> {}, rest |-> {}, ids |-> {},
              total |-> 0, ok |-> FALSE, ctrlC |-> FALSE]

OwnProcess == [UID |-> "ours", PPID |-> "job", Command |-> CHOOSE l \in Line : Match(l)]

(* The part of the world a command does not read is left empty. *)
Init ==
    /\ \E c \in Commands : job = Job(c, "start")
    /\ tree \in Trees[job.cmd]
    /\ fresh \in SUBSET (IF job.cmd = "apps" THEN AppDirs \cap tree ELSE {})
    /\ IF job.cmd = "apps" THEN spotted \in SUBSET App /\ listed \in SUBSET App
                           ELSE spotted = {} /\ listed = {}
    /\ blind = FALSE
    /\ IF job.cmd = "orphans" THEN proc \in [Pid -> Process \cup {NoProc}] /\ proc[Self] = OwnProcess
                              ELSE proc = [p \in Pid |-> NoProc]
    /\ IF job.cmd \in {"disable", "restore"} THEN loaded \in SUBSET Service /\ enabled \in SUBSET Service
                                            ELSE loaded = {} /\ enabled = {}
    /\ vouched = {} /\ late = {} /\ struck = {} /\ unlogged = {} /\ seen = {}
    /\ faults = 0 /\ user = 0

-----------------------------------------------------------------------------
(* What the scans find and the plans propose. *)

Below(p) == {q \in tree : IsPrefix(p, q)}
Bytes(Q) == MapThenSumSet(LAMBDA q : Size[q], Q \cap File)
IsDir(p) == p \in tree \ File

(* What a walk comes to that passes over directories it cannot read ...    *)
Reached(p) == {q \in Below(p) : ~\E s \in Below(p) \cap Sealed : IsStrictPrefix(s, q)}

(* ... and one that gives up at the first of them: its caller takes the    *)
(* error for no bytes.  Hard links are counted one by one.                 *)
Whole(p)   == Below(p) \cap (Sealed \ File) = {}
DirSize(p) == IF Whole(p) THEN Bytes(Below(p)) ELSE 0

(* The real bytes: one name of each inode, of what can be opened.          *)
OneName(Q) == {CHOOSE q \in Q : Inode[q] = i : i \in {Inode[q] : q \in Q}}
UniqueAllocated(p) == Bytes(OneName((Reached(p) \cap File) \ Sealed))

(* Mutant: a nested artefact is an item as well. *)
Unpruned == {p \in tree \ File : Last(p) \in Targets /\ \E r \in ScanRoots : p \in Reached(r)}

(* The walk stops at an artefact. *)
Artefacts ==
    {p \in tree \ File :
        /\ Last(p) \in Targets
        /\ \E r \in ScanRoots : /\ p \in Reached(r)
                                 /\ \A n \in Len(r)..(Len(p) - 1) : p[n] \notin Targets}

KeyOf(d)        == IF d \in DOMAIN Curated THEN Curated[d] ELSE Key[Last(d)]
candidateFor(d) == d \in DOMAIN Curated \/ (Front(d) \in LibraryRoots /\ Last(d) \notin Excluded)

(* Spotlight tells nothing when it is off, and nothing after Ctrl-C: the   *)
(* index is then built from the folders alone.                             *)
Answer == IF blind \/ job.ctrlC THEN {} ELSE spotted

(* The blocks are looked at first: they are cheaper to come by. *)
Blocks(d)  == d \notin Sealed /\ Bytes(Reached(d)) >= MinSize
Large(d)   == UniqueAllocated(d) >= MinSize
Plain(d)   == IsDir(d) /\ d \notin Alien
inspect(d) == /\ ~Lookup(KeyOf(d), Answer, listed)
              /\ Plain(d) /\ Blocks(d) /\ d \notin fresh /\ Large(d)

Filled   == {t \in CacheDirs \ ReportOnly : IsDir(t) /\ DirSize(t) > 0}
Deserted ==
    {d \in AppDirs \cap tree :
        /\ candidateFor(d) /\ inspect(d)
        /\ (d \in DOMAIN Curated \/ Front(d) \notin Sealed)}

(* The size of an item, and the total of the plan. *)
SizeOf(x) == IF job.cmd = "apps" THEN UniqueAllocated(x) ELSE DirSize(x)

Plan ==
    CASE job.cmd = "caches"  -> Filled
      [] job.cmd = "dev"     -> Artefacts
      [] job.cmd = "apps"    -> Deserted
      [] job.cmd = "orphans" -> {p \in Pid : IsOrphan(p)}
      [] OTHER               -> Service

DelSafety ==
    IF job.cmd = "caches" THEN NewSafety(CacheRoots, {})
    ELSE IF job.cmd = "dev" THEN NewSafety(ScanRoots, {".git"}) ELSE NewSafety(LibraryRoots, {})

-----------------------------------------------------------------------------
(* The loop of the commands. *)

At(l)   == job.at = l
Of      == CHOOSE x \in job.cur : TRUE
Goto(l) == job' = [job EXCEPT !.at = l]
Fail    == job' = [job EXCEPT !.at = "audit", !.ok = FALSE, !.rest = {}, !.ids = {}]
Succeed == job' = [job EXCEPT !.at = "audit", !.ok = TRUE, !.rest = {}, !.ids = {}]
Failing == faults < MaxFaults /\ faults' = faults + 1
Sound   == UNCHANGED faults
Strike  == struck' = struck \cup job.cur /\ unlogged' = unlogged \cup job.cur
Still   == UNCHANGED past

(* A cancelled scan returns its error, except startup's, which looks at    *)
(* nothing; so does one that cannot read the process table.                *)
Scan ==
    /\ At("start") /\ UNCHANGED world /\ Still
    /\ \/ /\ Sound /\ (job.ctrlC => job.cmd \in {"disable", "restore"})
          /\ job' = [job EXCEPT !.at = IF Plan = {} THEN "end"
                                       ELSE IF job.cmd = "restore" THEN "next" ELSE "ask",
                                !.todo = Plan,
                                !.total = IF job.cmd \notin {"caches", "dev", "apps"} THEN 0
                                          ELSE MapThenSumSet(SizeOf, Plan)]
       \/ Sound /\ job.ctrlC /\ job.cmd \notin {"disable", "restore"} /\ Goto("end")
       \/ Failing /\ job.cmd = "orphans" /\ Goto("end")

(* No, and a dry run, change nothing. *)
Confirm ==
    /\ At("ask") /\ UNCHANGED world /\ Still /\ Sound
    /\ \/ job' = [job EXCEPT !.at = "next", !.total = 0]
       \/ job' = [job EXCEPT !.at = "end", !.todo = {}, !.total = 0]

Turn ==
    /\ At("next") /\ UNCHANGED world /\ Sound
    /\ \/ job.todo = {} /\ Goto("end") /\ Still
       \/ \E x \in job.todo :
            /\ job' = [job EXCEPT !.at = "check", !.todo = @ \ {x}, !.cur = {x}]
            /\ struck' = {} /\ vouched' = {} /\ late' = {} /\ UNCHANGED unlogged

(* Mutant: the action that is over is not put away. *)
AuditOnly ==
    /\ At("audit") /\ UNCHANGED <<world, vouched, late, struck>> /\ Sound
    /\ job' = [job EXCEPT !.at = "next"] /\ unlogged' = unlogged \ job.cur

(* A record that cannot be written is dropped without a word. *)
Audit ==
    /\ At("audit") /\ UNCHANGED <<world, vouched, late, struck>> /\ Sound
    /\ job' = [job EXCEPT !.at = "next", !.cur = {}, !.ok = FALSE]
    /\ unlogged' = unlogged \ job.cur

-----------------------------------------------------------------------------
(* Apply, by module. *)

Check ==
    /\ At("check") /\ UNCHANGED world /\ Still /\ Sound
    /\ CASE job.cmd = "caches" ->
                IF Of \notin ReportOnly /\ CanDelete(DelSafety, Of) /\ IsDir(Of)
                THEN job' = [job EXCEPT !.at = "clear",
                                        !.rest = {q \in Below(Of) : Front(q) = Of}]
                ELSE Fail
         [] job.cmd = "dev" ->
                IF CanDelete(DelSafety, Of) THEN Goto("remove") ELSE Fail
         [] job.cmd = "apps" ->
                IF candidateFor(Of) /\ (Of \in DOMAIN Curated \/ CanDelete(DelSafety, Of))
                THEN Goto("mdfind") ELSE Fail
         [] job.cmd = "orphans" -> IF Of # Self THEN Goto("verify") ELSE Fail
         [] job.cmd = "disable" -> Goto("bootout")
         [] OTHER               -> Goto("enable")

(* RemoveAll that fails leaves p, and of what is below it anything; what   *)
(* it took away shows in the time of the directory.  It fails for certain  *)
(* at a directory that it cannot read and that is not empty.               *)
Stuck(p) == \E q \in Below(p) : Front(q) \in Below(p) \cap Sealed
Gone(p) == ~Stuck(p) /\ tree' = tree \ Below(p) /\ fresh' = fresh \ {p}
Part(p) ==
    /\ p \in tree
    /\ \E keep \in SUBSET Below(p) :
        /\ p \in keep /\ Below(p) \ Reached(p) \subseteq keep
        /\ \A q \in keep \ {p} : Front(q) \in keep
        /\ tree' = (tree \ Below(p)) \cup keep
        /\ fresh' = IF keep = Below(p) THEN fresh ELSE fresh \cup ({p} \cap AppDirs)

(* caches: an entry that cannot be removed is passed over. *)
Clear ==
    /\ At("clear") /\ UNCHANGED <<appworld, proc, services, vouched, late>>
    /\ \/ job.rest = {} /\ Succeed /\ Sound /\ UNCHANGED <<files, struck, unlogged>>
       \/ \E e \in job.rest :
            /\ job' = [job EXCEPT !.rest = @ \ {e}] /\ Strike
            /\ (Gone(e) /\ Sound) \/ (Part(e) /\ IF Stuck(e) THEN Sound ELSE Failing)

(* apps: the verdict is established again, from a new index. *)
Mdfind ==
    /\ At("mdfind") /\ UNCHANGED world /\ Still /\ Sound
    /\ job' = [job EXCEPT !.at = "folders", !.ids = Answer]
Folders ==
    /\ At("folders") /\ UNCHANGED world /\ Still /\ Sound
    /\ IF Lookup(KeyOf(Of), job.ids, listed) THEN Fail
       ELSE job' = [job EXCEPT !.at = "stat", !.ids = {}]

(* Mutant: idleness is what the scan said. *)
StatSize ==
    /\ At("stat") /\ UNCHANGED world /\ Still /\ Sound
    /\ IF Plain(Of) /\ Blocks(Of) THEN Goto("unique") ELSE Fail
Stat ==
    /\ At("stat") /\ UNCHANGED world /\ Still /\ Sound
    /\ IF Plain(Of) /\ Blocks(Of) /\ Of \notin fresh THEN Goto("unique") ELSE Fail
Unique ==
    /\ At("unique") /\ UNCHANGED world /\ Still /\ Sound
    /\ IF Large(Of) THEN Goto("remove") ELSE Fail

(* dev and apps. *)
Remove_ ==
    /\ At("remove") /\ UNCHANGED <<appworld, proc, services, vouched, late>> /\ Strike
    /\ \/ Gone(Of) /\ Succeed /\ Sound
       \/ Part(Of) /\ Fail /\ IF Stuck(Of) THEN Sound ELSE Failing

(* orphans: the process is proved again from a new reading of the table.   *)
verifyStillOrphan(p) == IsOrphan(p)

Verify ==
    /\ At("verify") /\ UNCHANGED <<world, struck, unlogged>>
    /\ \/ /\ Sound /\ ~job.ctrlC /\ verifyStillOrphan(Of) /\ Goto("term")
          /\ vouched' = (IF IsOrphan(Of) THEN {Of} ELSE {}) /\ late' = {}
       \/ /\ Sound /\ (job.ctrlC \/ ~verifyStillOrphan(Of)) /\ Fail /\ UNCHANGED <<vouched, late>>
       \/ Failing /\ Fail /\ UNCHANGED <<vouched, late>>

Send(next) ==
    /\ proc[Of] # NoProc /\ proc[Of].UID = "ours"
    /\ Goto(next) /\ Strike /\ UNCHANGED <<vouched, late>>
Denied == proc[Of] # NoProc /\ proc[Of].UID = "theirs" /\ Fail /\ Still

Term ==
    /\ At("term") /\ UNCHANGED world /\ Sound
    /\ Send("grace") \/ Denied \/ (proc[Of] = NoProc /\ Succeed /\ Still)

(* While the pid is in use waitGone waits on, until it has waited enough,  *)
(* which after Ctrl-C it has at once.                                      *)
Grace ==
    /\ At("grace") /\ UNCHANGED world /\ Still /\ Sound
    /\ IF proc[Of] = NoProc THEN Succeed ELSE Goto("kill")
Kill ==
    /\ At("kill") /\ UNCHANGED world /\ Sound
    /\ Send("mourn") \/ Denied \/ (proc[Of] = NoProc /\ Goto("mourn") /\ Still)

(* Mutants: a wait that is over counts as success; one that is never over. *)
MournAll ==
    /\ At("mourn") /\ UNCHANGED world /\ Still /\ Sound
    /\ Succeed
MournOn ==
    /\ At("mourn") /\ UNCHANGED world /\ Still /\ Sound
    /\ proc[Of] = NoProc /\ Succeed
Mourn ==
    /\ At("mourn") /\ UNCHANGED world /\ Still /\ Sound
    /\ IF proc[Of] = NoProc THEN Succeed ELSE Fail

(* startup: bootout may fail, mostly because nothing is loaded. *)
Launchctl(did, didnot) == (~job.ctrlC /\ did /\ Sound) \/ (job.ctrlC /\ didnot /\ Sound)
                              \/ (didnot /\ Failing)
Bootout ==
    /\ At("bootout") /\ UNCHANGED <<files, appworld, proc, enabled, vouched, late>>
    /\ Goto("disable") /\ Strike
    /\ Launchctl(loaded' = loaded \ {Of}, UNCHANGED loaded)
Disable ==
    /\ At("disable") /\ UNCHANGED <<files, appworld, proc, loaded, vouched, late>> /\ Strike
    /\ Launchctl(enabled' = enabled \ {Of} /\ Succeed, UNCHANGED enabled /\ Fail)
Enable ==
    /\ At("enable") /\ UNCHANGED <<files, appworld, proc, loaded, vouched, late>> /\ Strike
    /\ Launchctl(enabled' = enabled \cup {Of} /\ Succeed, UNCHANGED enabled /\ Fail)

(* Killed: what it was about is lost. *)
Die ==
    /\ job.at \notin {"start", "end"} /\ Failing /\ UNCHANGED world
    /\ job' = Job(job.cmd, "end")
    /\ vouched' = {} /\ late' = {} /\ struck' = {} /\ unlogged' = {}

Command ==
    \/ Scan \/ Confirm \/ Turn \/ Check \/ Clear \/ Mdfind \/ Folders \/ Stat \/ Unique \/ Remove_
    \/ Verify \/ Term \/ Grace \/ Kill \/ Mourn \/ Bootout \/ Disable \/ Enable \/ Audit

-----------------------------------------------------------------------------
(* The world beside it, while it runs; a part the command does not depend  *)
(* on stands still.                                                        *)

Moves(part) == part \in Moving[job.cmd]
Touched(Q)  == {d \in AppDirs : \E q \in Q : IsPrefix(d, q)}

Make == \E p \in Paths \ tree :
    /\ Front(p) \in tree \cup {<<>>} /\ tree' = tree \cup {p} /\ fresh' = fresh \cup Touched({p})
Drop == \E p \in tree :
    /\ tree' = tree \ Below(p) /\ fresh' = (fresh \cup Touched({p})) \ Below(p)
Write == \E d \in (AppDirs \cap tree) \ fresh : fresh' = fresh \cup {d} /\ UNCHANGED tree
Age   == \E d \in fresh : fresh' = fresh \ {d} /\ UNCHANGED tree

Install   == \E a \in App, S \in SUBSET {"spotted", "listed"} :
    /\ S # {} /\ UNCHANGED blind
    /\ spotted' = IF "spotted" \in S THEN spotted \cup {a} ELSE spotted
    /\ listed' = IF "listed" \in S THEN listed \cup {a} ELSE listed
Uninstall == \E a \in spotted \cup listed :
    spotted' = spotted \ {a} /\ listed' = listed \ {a} /\ UNCHANGED blind
Spotlight == blind' = ~blind /\ UNCHANGED <<spotted, listed>>

Toggle == \E s \in Service :
    \/ loaded' = loaded \cup {s} /\ UNCHANGED enabled
    \/ enabled' \in {enabled \cup {s}, enabled \ {s}} /\ UNCHANGED loaded

Processes == \E p \in Pid :
    \/ Spawn(p) /\ late' = late \cup {p} /\ UNCHANGED vouched
    \/ Exit(p) /\ vouched' = vouched \ {p} /\ UNCHANGED late
    \/ (JobEnds(p) \/ Exec(p)) /\ UNCHANGED <<vouched, late>>

CtrlC == ~job.ctrlC /\ job' = [job EXCEPT !.ctrlC = TRUE]

World ==
    /\ ~At("end") /\ user < MaxUser /\ user' = user + 1 /\ UNCHANGED <<struck, unlogged, faults>>
    /\ \/ /\ Moves("files") /\ (Make \/ Drop \/ Write \/ Age)
          /\ UNCHANGED <<appworld, proc, services, job, vouched, late>>
       \/ /\ Moves("apps") /\ (Install \/ Uninstall \/ Spotlight)
          /\ UNCHANGED <<files, proc, services, job, vouched, late>>
       \/ /\ Moves("processes") /\ Processes
          /\ UNCHANGED <<files, appworld, services, job>>
       \/ /\ Moves("services") /\ Toggle
          /\ UNCHANGED <<files, appworld, proc, job, vouched, late>>
       \/ CtrlC /\ UNCHANGED <<world, vouched, late>>

-----------------------------------------------------------------------------
(* What has been true since the command turned to its target. *)

Deletable == AppDirs \cup Pid
Holds(t) ==
    IF t \in Pid THEN {f \in {"orphan"} : IsOrphan(t)}
    ELSE {f \in Fact \ {"orphan"} :
            CASE f = "unspotted" -> ~Lookup(KeyOf(t), Answer, {})
              [] f = "unlisted"  -> ~Lookup(KeyOf(t), {}, listed)
              [] f = "idle"      -> t \notin fresh
              [] f = "large"     -> Large(t)
              [] f = "plain"     -> Plain(t)}
Proofs == [t \in Deletable |-> IF t \in Pid THEN {{"orphan"}} ELSE {Fact \ {"orphan"}}]
Pledged == job.cmd \in {"apps", "orphans"}
Target_ == IF Pledged THEN job.cur ELSE {}

Watch == seen' = IF Target_' = {} THEN {}
                 ELSE (IF Target_' = Target_ THEN seen ELSE {}) \cup UNION {Holds(t)' : t \in Target_'}

Next == /\ \/ Command /\ UNCHANGED user
           \/ Die /\ UNCHANGED user
           \/ World
        /\ Watch

Spec == Init /\ [][Next]_vars

(* The command runs on while the world does as it likes.  The answer to    *)
(* its question need not come.                                             *)
FairSpec == Spec /\ WF_vars(Command /\ ~At("ask") /\ UNCHANGED user /\ Watch)

-----------------------------------------------------------------------------
(* Types, and that an action is at hand exactly while it is applied.       *)
TypeOK ==
    /\ tree \subseteq Paths /\ fresh \subseteq AppDirs
    /\ spotted \subseteq App /\ listed \subseteq App /\ blind \in BOOLEAN
    /\ proc \in [Pid -> Process \cup {NoProc}]
    /\ loaded \subseteq Service /\ enabled \subseteq Service
    /\ job \in [cmd : Commands, at : Labels, todo : SUBSET Thing, cur : SUBSET Thing,
                rest : SUBSET Paths, ids : SUBSET App, total : {job.total}, ok : BOOLEAN,
                ctrlC : BOOLEAN]
    /\ job.cur = IF job.at \in {"start", "ask", "next", "end"} THEN {} ELSE {Of}
    /\ vouched \subseteq Pid /\ late \subseteq Pid
    /\ struck \subseteq Thing /\ unlogged \subseteq Thing /\ seen \subseteq Fact

(* What a command takes off the disk lies inside a cache directory, which  *)
(* itself stays; at or below a build artefact strictly inside a root and   *)
(* outside any .git; or at or below the data directory of an app, never an *)
(* excluded one.  The scan walks into .git and into a root that is called  *)
(* like an artefact (core/safety.go:58-94; caches/caches.go:144-159;       *)
(* dev/dev.go:43-75; orphanapps.go:146-149, 300-326).                      *)
Allowed(p) ==
    CASE job.cmd = "caches" -> \E c \in CacheDirs \ ReportOnly : IsStrictPrefix(c, p)
      [] job.cmd = "dev" ->
            \E q \in Paths : /\ IsPrefix(q, p) /\ Last(q) \in Targets /\ ~HasPart(q, {".git"})
                             /\ \E r \in ScanRoots : IsStrictPrefix(r, q)
      [] job.cmd = "apps" ->
            \E d \in AppDirs : IsPrefix(d, p) /\ (d \in DOMAIN Curated \/ Last(d) \notin Excluded)
      [] OTHER -> FALSE
WallsHold == job' # job => \A p \in tree \ tree' : Allowed(p)

(* A process that is signalled is the one that was just proved an orphan,  *)
(* or one that was given its pid since: no other process of the machine is *)
(* ever signalled (procsig/module.go:152-172, 175-198).                    *)
StrangersAreLate ==
    job'.at \in {"grace", "mourn"} /\ job'.at # job.at /\ proc[Of] # NoProc
        => Of \in vouched \cup late

(* No command hits what is outside the walls, or a stranger.               *)
StrikesAreAimed == [][WallsHold /\ StrangersAreLate]_vars

(* `apps clean` removes an app directory, and `orphans kill` signals a     *)
(* pid, only after everything that makes it abandoned, or an orphan, has   *)
(* been true since the command turned to it: "an app reinstalled since Plan, or a dir written to       *)
(* since, is refused" (orphanapps.go:264-268); procsig/module.go:128-131.  *)
Promise == INSTANCE Deleter WITH
    Agent <- {"command"}, Target <- Deletable, Proofs <- Proofs,
    holds <- [t \in Deletable |-> Holds(t)], here <- Deletable \ (IF Pledged THEN struck ELSE {}),
    cur <- [a \in {"command"} |-> Target_], seen <- [a \in {"command"} |-> seen]
KeepsPromise == Promise!Spec

(* An action that is audited ok has done what it says: the directory and   *)
(* all below it is gone, the process proved an orphan is dead whoever has  *)
(* its pid by now, the service is disabled, or enabled (dev.go:93-111;      *)
(* orphanapps.go:287-297; procsig/module.go:157-172; startup.go:79-106).   *)
(* Not of caches: there an entry that cannot be removed is passed over.    *)
OkMeansDone ==
    At("audit")' /\ ~At("audit") /\ job'.ok =>
        CASE job.cmd \in {"dev", "apps"} -> ~\E q \in tree' : IsPrefix(Of, q)
          [] job.cmd = "orphans"         -> Of \notin vouched'
          [] job.cmd = "disable"         -> Of \notin enabled'
          [] job.cmd = "restore"         -> Of \in enabled'
          [] OTHER                       -> IsDir(Of)' \/ UNCHANGED tree

(* "an append-only JSONL log of every destructive action": what a command  *)
(* has hit is in the log when it turns to the next action, done or failed, *)
(* unless the command was killed (audit/audit.go:1; cli/caches_cmd.go:     *)
(* 119-137, orphans_cmd.go:109-131, startup_cmd.go:83-99).                 *)
StruckIsLogged == job.at \in {"next", "end"} => unlogged = {}

(* The audit log is true: ok is done, and nothing that was hit is missing. *)
AuditIsTrue == [][OkMeansDone /\ StruckIsLogged']_vars

(* The files a command may announce: what lies in its cache directories,   *)
(* or below a name of an artefact, or in the directories that it planned.  *)
Union ==
    {q \in tree \cap File :
        CASE job.cmd = "caches" -> \E c \in CacheDirs \ ReportOnly : IsStrictPrefix(c, q)
          [] job.cmd = "dev"  -> \E r \in ScanRoots : /\ IsPrefix(r, q)
                                    /\ \E n \in Len(r)..(Len(q) - 1) : q[n] \in Targets
          [] job.cmd = "apps" -> \E d \in job.todo' : IsPrefix(d, q)
          [] OTHER            -> FALSE}

(* Nothing is in the way of a walk, and no file of apps has two names.     *)
Simple ==
    /\ tree \cap Sealed = {}
    /\ (job.cmd = "apps" => \A p, q \in tree \cap File : Inode[p] = Inode[q] => p = q)

(* The total a user is asked to confirm counts no file twice, be it in an  *)
(* artefact inside an artefact, and forgets none unless a directory cannot *)
(* be read; caches and dev count hard links one by one (core/walk.go:      *)
(* 11-34; dev.go:43-75; orphanapps.go:187-218; cli/dev_cmd.go:49-51,       *)
(* caches_cmd.go:106-112, apps_cmd.go:60-66).                              *)
TotalIsUnion ==
    At("start") /\ At("ask")'
        => job'.total <= Bytes(Union) /\ (Simple => job'.total = Bytes(Union))
PlanIsTrue == [][TotalIsUnion]_vars

(* The machines it is true of: nothing that a command looks for lies       *)
(* inside another.                                                         *)
Apart(S) == \A a, b \in S : IsPrefix(a, b) => a = b
OrdinaryMachine == Apart(CacheDirs \ ReportOnly) /\ Apart(ScanRoots) /\ Apart(AppDirs)

(* "Scan walks each root, collects every target directory ... and reports  *)
(* their sizes" (dev.go:40-42).  Not so: of one in which a directory       *)
(* cannot be read it reports none, plans it all the same, and asks for a   *)
(* total that leaves it out (dev.go:57, 80-89; walk.go:14-31).             *)
TotalCoversPlan ==
    [][At("start") /\ At("ask")'
          => job'.total >= Bytes(OneName(UNION {Below(p) \cap File : p \in job'.todo \cap Paths}))]_vars

(* "a recycled pid is refused, never signaled" (procsig/module.go:27-30).  *)
(* Not so: the identity is read once, before SIGTERM, and the pid may be   *)
(* given out again until SIGKILL (module.go:152-172).                      *)
RecycledAreSpared ==
    [][job'.at \in {"grace", "mourn"} /\ job'.at # job.at /\ proc[Of] # NoProc
          => Of \in vouched]_vars

(* A command that was answered comes to its end: every wait of it is       *)
(* bounded, the world and Ctrl-C notwithstanding (procsig/module.go:       *)
(* 231-242; cli/orphans_cmd.go:109-131).                                   *)
AnsweredEnds == At("next") ~> At("end")
=============================================================================
