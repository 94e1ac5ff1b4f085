--------------------------- MODULE CleanersProofs ---------------------------
(***************************************************************************)
(* The cleaning commands for any machine, walls, apps and processes: their *)
(* types, that no command hits what is outside its walls or a stranger,    *)
(* that what is audited is done, that `apps clean` and `orphans kill`      *)
(* strike nothing but what every fact of its proof has condemned, and that *)
(* what a user is asked to confirm is true.                                *)
(***************************************************************************)
EXTENDS Cleaners, TLAPS, FiniteSetTheorems, WellFoundedInduction

Idle == {"start", "ask", "next", "end"}

(* What a command may be about, whatever the machine looks like.           *)
Plausible(c) ==
    CASE c = "caches"  -> (CacheDirs \ ReportOnly) \cap Paths
      [] c = "dev"     -> {p \in Paths : Last(p) \in Targets}
      [] c = "apps"    -> {d \in AppDirs : candidateFor(d)}
      [] c = "orphans" -> Pid \ {Self}
      [] OTHER         -> Service

(* The steps of apply of a command.                                        *)
Lane(c) ==
    CASE c = "caches"  -> {"clear"}
      [] c = "dev"     -> {"remove"}
      [] c = "apps"    -> {"mdfind", "folders", "stat", "unique", "remove"}
      [] c = "orphans" -> {"verify", "term", "grace", "kill", "mourn"}
      [] c = "disable" -> {"bootout", "disable"}
      [] OTHER         -> {"enable"}

(* A command is about what it listed, in its own lane, behind its walls.   *)
Aim ==
    /\ job.todo \cup job.cur \subseteq Plausible(job.cmd)
    /\ job.at \in Idle \cup {"check", "audit"} \cup Lane(job.cmd)
    /\ job.at = "remove" /\ job.cmd = "dev" => CanDelete(DelSafety, Of)
    /\ \A e \in job.rest : job.at = "clear" /\ IsPrefix(Of, e) /\ Front(e) = Of

(* What apps has read of a directory, and orphans of a process, was so     *)
(* since it turned to it.                                                  *)
Known(l) ==
    CASE l = "stat"   -> {"unspotted", "unlisted"}
      [] l = "unique" -> {"unspotted", "unlisted", "plain", "idle"}
      [] l = "remove" -> Fact \ {"orphan"}
      [] l \in {"term", "grace", "kill"} -> {"orphan"}
      [] OTHER -> {}
Evidence ==
    job.cmd \in {"apps", "orphans"} =>
        /\ Known(job.at) \subseteq seen
        /\ job.at = "folders" /\ ~Lookup(KeyOf(Of), job.ids, {}) => "unspotted" \in seen

(* A process that was vouched for runs; one that has the pid of a target   *)
(* past verify was vouched for, or is younger.                             *)
Vouchers ==
    /\ \A p \in vouched : proc[p] # NoProc
    /\ job.at \in {"term", "grace", "kill", "mourn"} /\ proc[Of] # NoProc => Of \in vouched \cup late

(* What was hit and is not in the log is the action at hand.               *)
Open == unlogged \subseteq job.cur

CleanInv == TypeOK /\ Aim /\ Evidence /\ Vouchers /\ Open

-----------------------------------------------------------------------------
(* Types. *)

JobType(n) == [cmd : Commands, at : Labels, todo : SUBSET Thing, cur : SUBSET Thing,
               rest : SUBSET Paths, ids : SUBSET App, total : {n}, ok : BOOLEAN, ctrlC : BOOLEAN]

WorldOK ==
    /\ tree \subseteq Paths /\ fresh \subseteq AppDirs
    /\ spotted \subseteq App /\ listed \subseteq App /\ blind \in BOOLEAN
    /\ proc \in [Pid -> Process \cup {NoProc}]
    /\ loaded \subseteq Service /\ enabled \subseteq Service
HandOK == job.cur = IF job.at \in Idle THEN {} ELSE {Of}
PastOK ==
    /\ vouched \subseteq Pid /\ late \subseteq Pid
    /\ struck \subseteq Thing /\ unlogged \subseteq Thing

LEMMA TypeParts ==
    TypeOK <=> WorldOK /\ job \in JobType(job.total) /\ HandOK /\ PastOK /\ seen \subseteq Fact
BY DEF TypeOK, WorldOK, JobType, HandOK, PastOK, Idle

(* What the ways on of a command make of its job.                          *)
Kept ==
    /\ job'.cmd = job.cmd /\ job'.todo = job.todo /\ job'.cur = job.cur
    /\ job'.total = job.total /\ job'.ctrlC = job.ctrlC
LEMMA Frames ==
    ASSUME job \in JobType(job.total)
    PROVE  /\ \A l \in Labels : Goto(l) =>
                /\ job' \in JobType(job'.total) /\ Kept /\ job'.at = l
                /\ job'.rest = job.rest /\ job'.ids = job.ids /\ job'.ok = job.ok
           /\ Fail =>
                /\ job' \in JobType(job'.total) /\ Kept /\ job'.at = "audit"
                /\ job'.rest = {} /\ job'.ids = {} /\ job'.ok = FALSE
           /\ Succeed =>
                /\ job' \in JobType(job'.total) /\ Kept /\ job'.at = "audit"
                /\ job'.rest = {} /\ job'.ids = {} /\ job'.ok = TRUE
<1>1. "audit" \in Labels
  BY DEF Labels
<1>. QED
  BY <1>1 DEF JobType, Goto, Fail, Succeed, Kept

(* Facts are about the machine, and about what the command is told of it.  *)
LEMMA HoldsStill ==
    ASSUME UNCHANGED world, job'.ctrlC = job.ctrlC, NEW t
    PROVE  Holds(t)' = Holds(t)
BY DEF world, files, appworld, services, Holds, IsOrphan, Match, Answer, Plain, Large, IsDir,
       UniqueAllocated, Reached, Below

LEMMA PlausibleThings == \A c : Plausible(c) \subseteq Thing
BY DEF Plausible, Thing, AppDirs

LEMMA PlanIsPlausible ==
    ASSUME WorldOK, job.cmd \in Commands
    PROVE  Plan \subseteq Plausible(job.cmd)
<1>1. Filled \subseteq (CacheDirs \ ReportOnly) \cap Paths
  BY DEF WorldOK, Filled, IsDir
<1>2. Artefacts \subseteq {p \in Paths : Last(p) \in Targets}
  BY DEF WorldOK, Artefacts
<1>3. Deserted \subseteq {d \in AppDirs : candidateFor(d)}
  BY DEF Deserted
<1>4. {p \in Pid : IsOrphan(p)} \subseteq Pid \ {Self}
  BY DEF IsOrphan
<1>. QED
  BY <1>1, <1>2, <1>3, <1>4 DEF Plan, Plausible, Commands

LEMMA ScanTypes ==
    ASSUME TypeOK, Scan
    PROVE  /\ job' \in JobType(job'.total) /\ job'.cmd = job.cmd /\ job'.cur = job.cur
           /\ job.at = "start" /\ job'.at \in {"end", "next", "ask"}
           /\ job'.todo \in {job.todo, Plan} /\ job'.rest = job.rest /\ job'.ctrlC = job.ctrlC
<1>1. job \in JobType(job.total) /\ Plan \subseteq Thing /\ {"end", "next", "ask"} \subseteq Labels
  BY TypeParts, PlanIsPlausible, PlausibleThings DEF JobType, Labels
<1>2. CASE Goto("end")
  BY <1>1, <1>2, Frames DEF Scan, At, Kept
<1>3. ASSUME NEW l \in {"end", "next", "ask"}, NEW n,
             job' = [job EXCEPT !.at = l, !.todo = Plan, !.total = n]
      PROVE  /\ job' \in JobType(job'.total) /\ job'.cmd = job.cmd /\ job'.cur = job.cur
             /\ job'.at = l /\ job'.todo = Plan /\ job'.rest = job.rest /\ job'.ctrlC = job.ctrlC
  BY <1>1, <1>3 DEF JobType
<1>. QED
  BY <1>2, <1>3 DEF Scan, At

LEMMA ConfirmTypes ==
    ASSUME TypeOK, Confirm
    PROVE  /\ job' \in JobType(job'.total) /\ job'.cmd = job.cmd /\ job'.cur = job.cur
           /\ job.at = "ask" /\ job'.at \in {"end", "next"}
           /\ job'.todo \in {job.todo, {}} /\ job'.rest = job.rest /\ job'.ctrlC = job.ctrlC
BY TypeParts DEF Confirm, At, JobType, Labels

LEMMA TurnTypes ==
    ASSUME TypeOK, Turn
    PROVE  /\ job' \in JobType(job'.total) /\ job'.cmd = job.cmd /\ job'.ctrlC = job.ctrlC
           /\ job.at = "next" /\ job'.rest = job.rest
           /\ \/ job'.at = "end" /\ job'.todo = job.todo /\ job'.cur = job.cur
              \/ \E x \in job.todo :
                   job'.at = "check" /\ job'.todo = job.todo \ {x} /\ job'.cur = {x}
<1>1. job \in JobType(job.total) /\ {"end", "check"} \subseteq Labels
  BY TypeParts DEF Labels
<1>2. CASE Goto("end")
  BY <1>1, <1>2, Frames DEF Turn, At, Kept
<1>3. ASSUME NEW x \in job.todo,
             job' = [job EXCEPT !.at = "check", !.todo = @ \ {x}, !.cur = {x}]
      PROVE  /\ job' \in JobType(job'.total) /\ job'.cmd = job.cmd /\ job'.ctrlC = job.ctrlC
             /\ job'.rest = job.rest
             /\ job'.at = "check" /\ job'.todo = job.todo \ {x} /\ job'.cur = {x}
  BY <1>1, <1>3 DEF JobType
<1>. QED
  BY <1>2, <1>3 DEF Turn, At

LEMMA AuditTypes ==
    ASSUME TypeOK, Audit
    PROVE  /\ job' \in JobType(job'.total) /\ job'.cmd = job.cmd /\ job'.ctrlC = job.ctrlC
           /\ job.at = "audit" /\ job'.at = "next" /\ job'.cur = {}
           /\ job'.todo = job.todo /\ job'.rest = job.rest
BY TypeParts DEF Audit, At, JobType, Labels

(* The steps of apply. *)
Apply ==
    \/ Check \/ Clear \/ Mdfind \/ Folders \/ Stat \/ Unique \/ Remove_
    \/ Verify \/ Term \/ Grace \/ Kill \/ Mourn \/ Bootout \/ Disable \/ Enable
Busy == Labels \ Idle

LEMMA BusyLabels ==
    Busy = {"check", "clear", "mdfind", "folders", "stat", "unique", "remove", "verify", "term",
            "grace", "kill", "mourn", "bootout", "disable", "enable", "audit"}
BY DEF Busy, Labels, Idle

LEMMA ApplyTypes ==
    ASSUME TypeOK, Apply
    PROVE  job' \in JobType(job'.total) /\ Kept /\ job.at \in Busy /\ job'.at \in Busy
<1>0. job \in JobType(job.total) /\ Busy \subseteq Labels /\ "audit" \in Busy
  BY TypeParts DEF Busy, Labels, Idle
<1>1. ASSUME Fail \/ Succeed \/ \E l \in Busy : Goto(l)
      PROVE  job' \in JobType(job'.total) /\ Kept /\ job'.at \in Busy
  BY <1>0, <1>1, Frames
<1>2. CASE Check
  <2>1. ASSUME job' = [job EXCEPT !.at = "clear", !.rest = {q \in Below(Of) : Front(q) = Of}]
        PROVE  job' \in JobType(job'.total) /\ Kept /\ job'.at \in Busy
    <3>. DEFINE Q == {q \in Below(Of) : Front(q) = Of}
    <3>1. Q \subseteq Paths /\ "clear" \in Busy
      BY TypeParts, BusyLabels DEF WorldOK, Below
    <3>. HIDE DEF Q
    <3>. QED
      BY <1>0, <2>1, <3>1 DEF JobType, Kept, Q
  <2>. QED
    BY <1>0, <1>1, <1>2, <2>1, BusyLabels DEF Check, At, JobType, Commands
<1>3. CASE Clear
  <2>1. ASSUME NEW e, job' = [job EXCEPT !.rest = @ \ {e}]
        PROVE  job' \in JobType(job'.total) /\ Kept /\ job'.at = job.at
    BY <1>0, <2>1 DEF JobType, Kept
  <2>. QED
    BY <1>0, <1>1, <1>3, <2>1, BusyLabels DEF Clear, At
<1>4. CASE Mdfind
  <2>1. Answer \in SUBSET App /\ "folders" \in Busy /\ job.at \in Busy
    BY <1>4, TypeParts, BusyLabels DEF WorldOK, Answer, Mdfind, At
  <2>. QED
    BY <1>0, <1>4, <2>1 DEF Mdfind, JobType, Kept
<1>5. CASE Folders
  <2>1. ASSUME job' = [job EXCEPT !.at = "stat", !.ids = {}]
        PROVE  job' \in JobType(job'.total) /\ Kept /\ job'.at \in Busy
    BY <1>0, <2>1, BusyLabels DEF JobType, Kept
  <2>. QED
    BY <1>1, <1>5, <2>1, BusyLabels DEF Folders, At
<1>6. CASE Stat \/ Unique \/ Remove_
  BY <1>1, <1>6, BusyLabels DEF Stat, Unique, Remove_, At
<1>7. CASE Verify \/ Term \/ Grace \/ Kill \/ Mourn
  BY <1>1, <1>7, BusyLabels DEF Verify, Term, Grace, Kill, Mourn, Send, Denied, At
<1>8. CASE Bootout \/ Disable \/ Enable
  BY <1>1, <1>8, BusyLabels DEF Bootout, Disable, Enable, Launchctl, At
<1>. QED
  BY <1>2, <1>3, <1>4, <1>5, <1>6, <1>7, <1>8 DEF Apply

(* What a removal, or the world, leaves of the files. *)
LEMMA FilesTypes ==
    ASSUME tree \subseteq Paths, fresh \subseteq AppDirs
    PROVE  /\ \A p : Gone(p) \/ Part(p) => tree' \subseteq tree /\ fresh' \subseteq AppDirs
           /\ Make \/ Drop \/ Write \/ Age => tree' \subseteq Paths /\ fresh' \subseteq AppDirs
<1>1. \A p : Below(p) \subseteq tree
  BY DEF Below
<1>2. \A Q : Touched(Q) \subseteq AppDirs
  BY DEF Touched
<1>. QED
  BY <1>1, <1>2 DEF Gone, Part, Make, Drop, Write, Age

LEMMA ProcTypes ==
    ASSUME proc \in [Pid -> Process \cup {NoProc}], NEW p \in Pid,
           Spawn(p) \/ Exit(p) \/ JobEnds(p) \/ Exec(p)
    PROVE  proc' \in [Pid -> Process \cup {NoProc}]
BY DEF Spawn, Exit, JobEnds, Exec, Process

LEMMA WorldTypes ==
    ASSUME TypeOK, World
    PROVE  /\ WorldOK' /\ PastOK' /\ job' \in JobType(job'.total)
           /\ job' = [job EXCEPT !.ctrlC = job'.ctrlC]
<1>0. WorldOK /\ PastOK /\ job \in JobType(job.total)
  BY TypeParts
<1>1. job' \in JobType(job'.total) /\ job' = [job EXCEPT !.ctrlC = job'.ctrlC]
  BY <1>0 DEF World, CtrlC, JobType
<1>2. UNCHANGED <<struck, unlogged>>
  BY DEF World
<1>3. CASE Moves("files") /\ (Make \/ Drop \/ Write \/ Age)
           /\ UNCHANGED <<appworld, proc, services, job, vouched, late>>
  BY <1>0, <1>1, <1>2, <1>3, FilesTypes DEF WorldOK, PastOK, appworld, services
<1>4. CASE Moves("apps") /\ (Install \/ Uninstall \/ Spotlight)
           /\ UNCHANGED <<files, proc, services, job, vouched, late>>
  <2>1. spotted' \subseteq App /\ listed' \subseteq App /\ blind' \in BOOLEAN
    BY <1>0, <1>4 DEF WorldOK, Install, Uninstall, Spotlight
  <2>. QED
    BY <1>0, <1>1, <1>2, <1>4, <2>1 DEF WorldOK, PastOK, files, services
<1>5. CASE Moves("processes") /\ Processes /\ UNCHANGED <<files, appworld, services, job>>
  <2>1. proc' \in [Pid -> Process \cup {NoProc}] /\ vouched' \subseteq Pid /\ late' \subseteq Pid
    BY <1>0, <1>5, ProcTypes DEF Processes, WorldOK, PastOK
  <2>. QED
    BY <1>0, <1>1, <1>2, <1>5, <2>1 DEF WorldOK, PastOK, files, appworld, services
<1>6. CASE Moves("services") /\ Toggle /\ UNCHANGED <<files, appworld, proc, job, vouched, late>>
  BY <1>0, <1>1, <1>2, <1>6 DEF Toggle, WorldOK, PastOK, files, appworld
<1>7. CASE CtrlC /\ UNCHANGED <<world, vouched, late>>
  BY <1>0, <1>1, <1>2, <1>7 DEF WorldOK, PastOK, world, files, appworld, services
<1>. QED
  BY <1>3, <1>4, <1>5, <1>6, <1>7 DEF World

(* The target of a step of apply is what the command is about.             *)
LEMMA OfIsPlausible ==
    ASSUME TypeOK, Aim, job.at \in Busy
    PROVE  /\ job.cur = {Of} /\ Of \in Plausible(job.cmd)
           /\ job.at \in {"check", "audit"} \cup Lane(job.cmd)
           /\ job.cmd \in Commands
BY TypeParts DEF Aim, HandOK, Busy, JobType

LEMMA OfIsOurs ==
    ASSUME TypeOK, Aim, job.at \in Busy
    PROVE  /\ job.at = "clear" => job.cmd = "caches"
           /\ job.at = "remove" => job.cmd \in {"dev", "apps"}
           /\ job.at \in {"mdfind", "folders", "stat", "unique"} => job.cmd = "apps"
           /\ job.at \in {"verify", "term", "grace", "kill", "mourn"} => job.cmd = "orphans"
           /\ job.at \in {"bootout", "disable"} => job.cmd = "disable"
           /\ job.at = "enable" => job.cmd = "restore"
           /\ job.cmd = "orphans" => Of \in Pid \ {Self}
           /\ job.cmd \in {"disable", "restore"} => Of \in Service
BY OfIsPlausible DEF Lane, Plausible, Commands

LEMMA CommandWorldTypes ==
    ASSUME TypeOK, Aim, Command
    PROVE  WorldOK' /\ PastOK'
<1>0. WorldOK /\ PastOK /\ job \in JobType(job.total)
  BY TypeParts
<1>1. struck \cup job.cur \subseteq Thing /\ unlogged \cup job.cur \subseteq Thing
  BY <1>0 DEF PastOK, JobType
<1>2. ASSUME UNCHANGED world PROVE WorldOK'
  BY <1>0, <1>2 DEF WorldOK, world, files, appworld, services
<1>3. ASSUME Strike \/ UNCHANGED <<struck, unlogged>>, UNCHANGED <<vouched, late>> PROVE PastOK'
  BY <1>0, <1>1, <1>3 DEF PastOK, Strike
<1>4. CASE Scan \/ Confirm \/ Check \/ Mdfind \/ Folders \/ Stat \/ Unique \/ Grace \/ Mourn
  BY <1>2, <1>3, <1>4 DEF Scan, Confirm, Check, Mdfind, Folders, Stat, Unique, Grace, Mourn, Still, past
<1>5. CASE Turn \/ Audit
  BY <1>0, <1>2, <1>5 DEF Turn, Audit, Still, past, PastOK
<1>6. CASE Verify
  <2>1. vouched' \subseteq Pid /\ late' \subseteq Pid
    <3>1. Of \in Pid
      BY <1>6, OfIsOurs, BusyLabels DEF Verify, At
    <3>. QED
      BY <1>0, <1>6, <3>1 DEF Verify, PastOK
  <2>. QED
    BY <1>0, <1>2, <1>6, <2>1 DEF Verify, PastOK
<1>7. CASE Term \/ Kill
  BY <1>2, <1>3, <1>7 DEF Term, Kill, Send, Denied, Still, past
<1>8. CASE Clear \/ Remove_
  BY <1>0, <1>3, <1>8, FilesTypes
     DEF Clear, Remove_, WorldOK, files, appworld, services, Strike
<1>9. CASE Bootout \/ Disable \/ Enable
  <2>1. Of \in Service
    BY <1>9, OfIsOurs, BusyLabels DEF Bootout, Disable, Enable, At
  <2>2. loaded' \subseteq Service /\ enabled' \subseteq Service
    BY <1>0, <1>9, <2>1 DEF Bootout, Disable, Enable, Launchctl, WorldOK
  <2>3. UNCHANGED <<files, appworld, proc, vouched, late>> /\ Strike
    BY <1>9 DEF Bootout, Disable, Enable
  <2>. QED
    BY <1>0, <1>3, <2>2, <2>3 DEF WorldOK, files, appworld
<1>. QED
  BY <1>4, <1>5, <1>6, <1>7, <1>8, <1>9 DEF Command

LEMMA DieTypes ==
    ASSUME TypeOK, Die
    PROVE  /\ WorldOK' /\ PastOK' /\ job' \in JobType(job'.total)
           /\ job' = Job(job.cmd, "end")
<1>1. job' = Job(job.cmd, "end") /\ UNCHANGED world
  BY DEF Die
<1>. QED
  BY <1>1, TypeParts
     DEF Die, WorldOK, PastOK, JobType, Job, Labels, world, files, appworld, services

LEMMA SeenTypes == ASSUME Watch, seen \subseteq Fact PROVE seen' \subseteq Fact
<1>1. \A t : Holds(t)' \subseteq Fact
  BY DEF Holds, Fact
<1>. QED
  BY <1>1 DEF Watch

LEMMA TypesKept == ASSUME TypeOK, Aim, [Next]_vars PROVE TypeOK'
<1>0. WorldOK /\ PastOK /\ job \in JobType(job.total) /\ HandOK /\ seen \subseteq Fact
  BY TypeParts
<1>1. ASSUME WorldOK', PastOK', job' \in JobType(job'.total), HandOK', seen' \subseteq Fact
      PROVE  TypeOK'
  BY <1>1 DEF TypeOK, WorldOK, JobType, HandOK, PastOK, Idle
<1>2. CASE Next
  <2>1. seen' \subseteq Fact
    BY <1>0, <1>2, SeenTypes DEF Next
  <2>2. ASSUME Command PROVE job' \in JobType(job'.total) /\ HandOK'
    <3>1. CASE Scan \/ Confirm \/ Turn \/ Audit
      BY <1>0, <3>1, ScanTypes, ConfirmTypes, TurnTypes, AuditTypes DEF HandOK, Idle, Of
    <3>2. CASE Apply
      BY <1>0, <3>2, ApplyTypes DEF HandOK, Busy, Kept, Of
    <3>. QED
      BY <2>2, <3>1, <3>2 DEF Command, Apply
  <2>3. CASE Command
    BY <1>1, <2>1, <2>2, <2>3, CommandWorldTypes
  <2>4. CASE Die
    BY <1>1, <2>1, <2>4, DieTypes DEF HandOK, Job, Idle
  <2>5. CASE World
    <3>1. job'.at = job.at /\ job'.cur = job.cur
      BY <1>0, <2>5, WorldTypes DEF JobType
    <3>. QED
      BY <1>0, <1>1, <2>1, <2>5, <3>1, WorldTypes DEF HandOK, Of
  <2>. QED
    BY <1>2, <2>3, <2>4, <2>5 DEF Next
<1>3. CASE UNCHANGED vars
  BY <1>3 DEF vars, world, files, appworld, services, past, TypeOK, Of
<1>. QED
  BY <1>2, <1>3

-----------------------------------------------------------------------------
(* Aim, and the log. *)

LEMMA AimKept == ASSUME TypeOK, Aim, [Next]_vars PROVE Aim'
<1>0. WorldOK /\ job \in JobType(job.total) /\ HandOK
  BY TypeParts
<1>1. CASE Scan \/ Confirm \/ Turn \/ Audit
  BY <1>0, <1>1, ScanTypes, ConfirmTypes, TurnTypes, AuditTypes, PlanIsPlausible
     DEF Aim, Idle, JobType
<1>2. CASE Apply
  <2>1. Kept /\ job.at \in Busy /\ job'.at \in Busy /\ Of' = Of /\ DelSafety' = DelSafety
    BY <1>2, ApplyTypes DEF Kept, Of, DelSafety
  <2>2. job.cmd \in Commands /\ job.at \in {"check", "audit"} \cup Lane(job.cmd)
    BY <2>1, OfIsPlausible
  <2>3. CASE Check
    <3>1. "audit" \in Labels /\ Lane(job.cmd) \subseteq Labels /\ job.rest = {}
      BY <2>2, <2>3 DEF Lane, Labels, Aim, Check, At
    <3>2. CASE job.cmd = "caches"
      <4>1. ASSUME job' = [job EXCEPT !.at = "clear", !.rest = {q \in Below(Of) : Front(q) = Of}]
            PROVE  job'.at = "clear" /\ job'.rest = {q \in Below(Of) : Front(q) = Of}
        BY <1>0, <4>1 DEF JobType
      <4>. QED
        BY <1>0, <2>1, <2>3, <3>1, <3>2, <4>1, Frames DEF Check, Aim, Kept, Lane, Below
    <3>3. CASE job.cmd # "caches"
      BY <1>0, <2>1, <2>2, <2>3, <3>1, <3>3, Frames DEF Check, Aim, Kept, Lane, Commands
    <3>. QED
      BY <3>2, <3>3
  <2>4. CASE Clear
    <3>1. ASSUME NEW e, job' = [job EXCEPT !.rest = @ \ {e}]
          PROVE  job'.at = job.at /\ job'.rest \subseteq job.rest
      BY <1>0, <3>1 DEF JobType
    <3>. QED
      BY <1>0, <2>1, <2>2, <2>4, <3>1, Frames DEF Clear, At, Aim, Kept, Idle
  <2>5. CASE Mdfind \/ Folders
    <3>1. (job'.rest = job.rest /\ job'.at \in {"folders", "stat"}) \/ Fail
      BY <1>0, <2>5 DEF Mdfind, Folders, JobType
    <3>2. job.cmd = "apps"
      BY <2>1, <2>5, OfIsOurs DEF Mdfind, Folders, At
    <3>3. job.rest = {}
      BY <2>5 DEF Mdfind, Folders, At, Aim
    <3>. QED
      BY <1>0, <2>1, <3>1, <3>2, <3>3, Frames DEF Aim, Kept, Lane
  <2>6. CASE Stat \/ Unique \/ Remove_
    <3>1. job.rest = {} /\ job.cmd \in {"dev", "apps"} /\ (Stat \/ Unique => job.cmd = "apps")
      BY <2>1, <2>6, OfIsOurs DEF Stat, Unique, Remove_, At, Aim
    <3>. QED
      BY <1>0, <2>1, <2>6, <3>1, Frames DEF Stat, Unique, Remove_, Aim, Kept, Lane, Labels
  <2>7. CASE Verify \/ Term \/ Grace \/ Kill \/ Mourn
    <3>1. job.rest = {} /\ job.cmd = "orphans"
      BY <2>1, <2>7, OfIsOurs DEF Verify, Term, Grace, Kill, Mourn, At, Aim
    <3>. QED
      BY <1>0, <2>1, <2>7, <3>1, Frames
         DEF Verify, Term, Grace, Kill, Mourn, Send, Denied, Aim, Kept, Lane, Labels
  <2>8. CASE Bootout \/ Disable \/ Enable
    <3>1. job.rest = {} /\ job.cmd \in {"disable", "restore"} /\ (Bootout => job.cmd = "disable")
      BY <2>1, <2>8, OfIsOurs DEF Bootout, Disable, Enable, At, Aim
    <3>. QED
      BY <1>0, <2>1, <2>8, <3>1, Frames
         DEF Bootout, Disable, Enable, Launchctl, Aim, Kept, Lane, Labels
  <2>. QED
    BY <1>2, <2>3, <2>4, <2>5, <2>6, <2>7, <2>8 DEF Apply
<1>3. CASE Die
  BY <1>3, DieTypes DEF Aim, Job, Idle
<1>4. CASE World
  <2>1. /\ job'.at = job.at /\ job'.cur = job.cur /\ job'.todo = job.todo
        /\ job'.cmd = job.cmd /\ job'.rest = job.rest
    BY <1>0, <1>4, WorldTypes DEF JobType
  <2>. QED
    BY <2>1 DEF Aim, Of, DelSafety
<1>5. CASE UNCHANGED vars
  BY <1>5 DEF vars, Aim, Of, DelSafety
<1>. QED
  BY <1>1, <1>2, <1>3, <1>4, <1>5 DEF Next, Command, Apply

LEMMA OpenKept == ASSUME TypeOK, Open, [Next]_vars PROVE Open'
<1>1. job \in JobType(job.total) /\ HandOK
  BY TypeParts
<1>2. CASE Scan \/ Confirm \/ Turn \/ Audit
  BY <1>1, <1>2, ScanTypes, ConfirmTypes, TurnTypes, AuditTypes
     DEF Open, HandOK, Idle, Scan, Confirm, Turn, Audit, Still, past
<1>3. CASE Apply
  <2>1. job'.cur = job.cur
    BY <1>3, ApplyTypes DEF Kept
  <2>2. Strike \/ UNCHANGED unlogged
    BY <1>3 DEF Apply, Check, Clear, Mdfind, Folders, Stat, Unique, Remove_, Verify, Term, Grace,
                Kill, Mourn, Bootout, Disable, Enable, Send, Denied, Still, past
  <2>. QED
    BY <2>1, <2>2 DEF Open, Strike
<1>4. CASE Die
  BY <1>4 DEF Die, Open
<1>5. CASE World
  <2>1. job'.cur = job.cur
    BY <1>1, <1>5, WorldTypes DEF JobType
  <2>. QED
    BY <1>5, <2>1 DEF World, Open
<1>6. CASE UNCHANGED vars
  BY <1>6 DEF vars, past, Open
<1>. QED
  BY <1>2, <1>3, <1>4, <1>5, <1>6 DEF Next, Command, Apply

-----------------------------------------------------------------------------
(* What is known of the target. *)

LEMMA VouchersKept == ASSUME TypeOK, Aim, Vouchers, [Next]_vars PROVE Vouchers'
<1>0. WorldOK /\ PastOK /\ job \in JobType(job.total) /\ HandOK
  BY TypeParts
<1>1. CASE Scan \/ Confirm \/ Turn \/ Audit
  <2>1. job'.at \in {"start", "ask", "next", "end", "check"} /\ proc' = proc
    BY <1>1, ScanTypes, ConfirmTypes, TurnTypes, AuditTypes
       DEF world, Scan, Confirm, Turn, Audit
  <2>2. UNCHANGED vouched \/ vouched' = {}
    BY <1>1 DEF Scan, Confirm, Turn, Audit, Still, past
  <2>. QED
    BY <2>1, <2>2 DEF Vouchers
<1>2. CASE Apply
  <2>1. Of' = Of /\ job.at \in Busy /\ UNCHANGED proc
    BY <1>2, ApplyTypes
       DEF Kept, Of, Apply, Check, Clear, Mdfind, Folders, Stat, Unique, Remove_, Verify, Term,
           Grace, Kill, Mourn, Bootout, Disable, Enable, world
  <2>2. CASE Verify
    BY <1>0, <2>1, <2>2, Frames DEF Verify, Vouchers, verifyStillOrphan, IsOrphan, Labels
  <2>3. CASE Term \/ Grace \/ Kill \/ Mourn
    BY <1>0, <2>1, <2>3, Frames
       DEF Term, Grace, Kill, Mourn, Send, Denied, Still, past, Vouchers, At, Labels
  <2>4. CASE Check \/ Clear \/ Mdfind \/ Folders \/ Stat \/ Unique \/ Remove_ \/ Bootout \/ Disable
             \/ Enable
    <3>1. UNCHANGED vouched
      BY <2>4 DEF Check, Clear, Mdfind, Folders, Stat, Unique, Remove_, Bootout, Disable, Enable,
                  Still, past
    <3>2. job'.at \notin {"term", "grace", "kill", "mourn"}
      <4>1. ASSUME NEW e, job' = [job EXCEPT !.rest = @ \ {e}] PROVE job'.at = job.at
        BY <1>0, <4>1 DEF JobType
      <4>2. ASSUME NEW Q, job' = [job EXCEPT !.at = "clear", !.rest = Q] PROVE job'.at = "clear"
        BY <1>0, <4>2 DEF JobType
      <4>3. ASSUME NEW I, NEW l, job' = [job EXCEPT !.at = l, !.ids = I] PROVE job'.at = l
        BY <1>0, <4>3 DEF JobType
      <4>4. CASE Check
        BY <1>0, <4>2, <4>4, Frames DEF Check, Labels
      <4>5. CASE Clear
        BY <1>0, <4>1, <4>5, Frames DEF Clear, At
      <4>6. CASE Mdfind \/ Folders
        BY <1>0, <4>3, <4>6, Frames DEF Mdfind, Folders
      <4>7. CASE Stat \/ Unique \/ Remove_ \/ Bootout \/ Disable \/ Enable
        BY <1>0, <4>7, Frames DEF Stat, Unique, Remove_, Bootout, Disable, Enable, Launchctl, Labels
      <4>. QED
        BY <2>4, <4>4, <4>5, <4>6, <4>7
    <3>. QED
      BY <2>1, <3>1, <3>2 DEF Vouchers
  <2>. QED
    BY <1>2, <2>2, <2>3, <2>4 DEF Apply
<1>3. CASE Die
  BY <1>3, DieTypes DEF Die, Job, Vouchers
<1>4. CASE World
  <2>1. job'.at = job.at /\ job'.cur = job.cur /\ Of' = Of
    BY <1>0, <1>4, WorldTypes DEF JobType, Of
  <2>2. CASE UNCHANGED <<proc, vouched, late>>
    BY <2>1, <2>2 DEF Vouchers
  <2>3. CASE Processes
    <3>1. PICK p \in Pid :
            \/ Spawn(p) /\ late' = late \cup {p} /\ UNCHANGED vouched
            \/ Exit(p) /\ vouched' = vouched \ {p} /\ UNCHANGED late
            \/ (JobEnds(p) \/ Exec(p)) /\ UNCHANGED <<vouched, late>>
      BY <2>3 DEF Processes
    <3>2. \A q \in Pid \ {p} : proc'[q] = proc[q]
      BY <1>0, <3>1 DEF WorldOK, Spawn, Exit, JobEnds, Exec
    <3>3. job.at \in {"term", "grace", "kill", "mourn"} => Of \in Pid
      BY OfIsOurs, BusyLabels
    <3>4. CASE Spawn(p) /\ late' = late \cup {p} /\ UNCHANGED vouched
      BY <1>0, <2>1, <3>2, <3>3, <3>4 DEF Vouchers, Spawn, PastOK
    <3>5. CASE Exit(p) /\ vouched' = vouched \ {p} /\ UNCHANGED late
      <4>1. proc'[p] = NoProc
        BY <1>0, <3>5 DEF Exit, WorldOK
      <4>. QED
        BY <1>0, <2>1, <3>2, <3>3, <3>5, <4>1 DEF Vouchers, PastOK
    <3>6. CASE (JobEnds(p) \/ Exec(p)) /\ UNCHANGED <<vouched, late>>
      <4>1. proc[p] # NoProc
        BY <3>6 DEF JobEnds, Exec
      <4>2. proc'[p] # NoProc
        BY <1>0, <3>6, <4>1, OrphansAssumption DEF WorldOK, JobEnds, Exec, Process
      <4>. QED
        BY <1>0, <2>1, <3>2, <3>3, <3>6, <4>1, <4>2 DEF Vouchers, PastOK
    <3>. QED
      BY <3>1, <3>4, <3>5, <3>6
  <2>. QED
    BY <1>4, <2>2, <2>3 DEF World, world
<1>5. CASE UNCHANGED vars
  BY <1>5 DEF vars, world, past, Vouchers, Of
<1>. QED
  BY <1>1, <1>2, <1>3, <1>4, <1>5 DEF Next, Command, Apply

LEMMA Remembered ==
    ASSUME Watch, job'.cmd = job.cmd, job.cmd \in {"apps", "orphans"}, NEW t, job'.cur = {t}
    PROVE  seen' = (IF job.cur = {t} THEN seen ELSE {}) \cup Holds(t)'
<1>1. Target_' = {t} /\ Target_ = job.cur
  BY DEF Target_, Pledged
<1>2. UNION {Holds(x)' : x \in {t}} = Holds(t)'
  OBVIOUS
<1>3. UNION {Holds(x)' : x \in Target_'} = Holds(t)'
  BY <1>1, <1>2
<1>. QED
  BY <1>1, <1>3 DEF Watch

(* An app in no index that is asked for less is in none that is asked for  *)
(* more.                                                                   *)
LEMMA LookupGrows ==
    ASSUME NEW n, NEW S, NEW T, NEW L, NEW M, S \subseteq T, L \subseteq M, ~Lookup(n, T, M)
    PROVE  ~Lookup(n, S, L)
<1>1. ids(S) \subseteq ids(T) /\ tokens(S, L) \subseteq tokens(T, M) /\ S \cup L \subseteq T \cup M
  BY DEF ids, tokens
<1>. QED
  BY <1>1 DEF Lookup

LEMMA AppFacts ==
    ASSUME NEW t, t \notin Pid
    PROVE  /\ ~Lookup(KeyOf(t), Answer, {}) => "unspotted" \in Holds(t)
           /\ ~Lookup(KeyOf(t), {}, listed) => "unlisted" \in Holds(t)
           /\ t \notin fresh => "idle" \in Holds(t)
           /\ Large(t) => "large" \in Holds(t)
           /\ Plain(t) => "plain" \in Holds(t)
BY DEF Holds, Fact

LEMMA EvidenceKept == ASSUME TypeOK, Aim, Evidence, [Next]_vars PROVE Evidence'
<1>0. WorldOK /\ PastOK /\ job \in JobType(job.total) /\ HandOK
  BY TypeParts
<1>1. CASE Scan \/ Confirm \/ Turn \/ Audit
  <2>1. job'.at \in {"start", "ask", "next", "end", "check"}
    BY <1>1, ScanTypes, ConfirmTypes, TurnTypes, AuditTypes
  <2>. QED
    BY <2>1 DEF Evidence, Known
<1>2. ASSUME Apply, Watch PROVE Evidence'
  <2>1. Kept /\ Of' = Of /\ job.at \in Busy /\ job.cur = {Of}
    BY <1>2, ApplyTypes, OfIsPlausible DEF Kept, Of
  <2>2. SUFFICES ASSUME job.cmd \in {"apps", "orphans"} PROVE Evidence'
    BY <2>1 DEF Evidence, Kept
  <2>3. PICK t : t = Of
    OBVIOUS
  <2>4. seen' = seen \cup Holds(t)' /\ (job.cmd = "apps" => t \notin Pid)
    <3>1. job'.cur = {t} /\ job.cur = {t} /\ job'.cmd = job.cmd
      BY <2>1, <2>3 DEF Kept
    <3>2. job.cmd = "apps" => t \in Paths
      BY <2>1, <2>3, OfIsPlausible DEF Plausible, AppDirs
    <3>. QED
      BY <1>2, <2>2, <3>1, <3>2, Remembered, CleanersAssumption
  <2>5. UNCHANGED world => seen' = seen \cup Holds(t)
    BY <2>1, <2>4, HoldsStill DEF Kept
  <2>6. CASE job'.at \in {"check", "mdfind", "verify", "mourn", "audit"}
    BY <2>6 DEF Evidence, Known
  <2>7. CASE Check
    BY <1>0, <2>1, <2>2, <2>6, <2>7, Frames DEF Check, Labels
  <2>8. CASE Mdfind
    <3>1. job'.at = "folders" /\ job'.ids = Answer /\ job.cmd = "apps"
      BY <1>0, <2>1, <2>8, OfIsOurs DEF Mdfind, JobType, At
    <3>2. ~Lookup(KeyOf(t), Answer, {}) => "unspotted" \in seen'
      BY <2>4, <2>5, <2>8, <3>1, AppFacts DEF Mdfind
    <3>. QED
      BY <2>1, <2>3, <3>1, <3>2 DEF Evidence, Known, KeyOf
  <2>9. CASE Folders
    <3>1. job.cmd = "apps" /\ job.at = "folders"
      BY <2>1, <2>9, OfIsOurs DEF Folders, At
    <3>2. CASE Fail
      BY <1>0, <2>6, <3>2, Frames
    <3>3. CASE ~Lookup(KeyOf(t), job.ids, listed) /\ job' = [job EXCEPT !.at = "stat", !.ids = {}]
      <4>1. ~Lookup(KeyOf(t), job.ids, {}) /\ ~Lookup(KeyOf(t), {}, listed)
        BY <3>3, LookupGrows
      <4>2. "unspotted" \in seen /\ "unlisted" \in Holds(t)
        BY <2>2, <2>3, <2>4, <3>1, <4>1, AppFacts DEF Evidence
      <4>3. job'.at = "stat"
        BY <1>0, <3>3 DEF JobType
      <4>. QED
        BY <2>5, <2>9, <4>2, <4>3 DEF Folders, Evidence, Known
    <3>. QED
      BY <2>3, <2>9, <3>2, <3>3 DEF Folders
  <2>10. CASE Stat \/ Unique
    <3>1. job.cmd = "apps" /\ job.at \in {"stat", "unique"} /\ UNCHANGED world
      BY <2>1, <2>10, OfIsOurs DEF Stat, Unique, At
    <3>2. CASE Fail
      BY <1>0, <2>6, <3>2, Frames
    <3>3. CASE Stat /\ Plain(t) /\ t \notin fresh /\ Goto("unique")
      <4>1. {"unspotted", "unlisted"} \subseteq seen /\ {"plain", "idle"} \subseteq Holds(t)
        BY <2>2, <2>4, <3>1, <3>3, AppFacts DEF Evidence, Known, Stat, At
      <4>2. job'.at = "unique"
        BY <1>0, <3>3, Frames DEF Labels
      <4>. QED
        BY <2>5, <3>1, <4>1, <4>2 DEF Evidence, Known
    <3>4. CASE Unique /\ Large(t) /\ Goto("remove")
      <4>1. {"unspotted", "unlisted", "plain", "idle"} \subseteq seen /\ "large" \in Holds(t)
        BY <2>2, <2>4, <3>1, <3>4, AppFacts DEF Evidence, Known, Unique, At
      <4>2. job'.at = "remove"
        BY <1>0, <3>4, Frames DEF Labels
      <4>. QED
        BY <2>5, <3>1, <4>1, <4>2 DEF Evidence, Known, Fact
    <3>. QED
      BY <2>3, <2>10, <3>2, <3>3, <3>4 DEF Stat, Unique
  <2>11. CASE Verify
    <3>1. CASE Fail
      BY <1>0, <2>6, <3>1, Frames
    <3>2. CASE IsOrphan(t) /\ Goto("term")
      <4>1. t \in Pid
        BY <2>1, <2>3, <2>11, OfIsOurs DEF Verify, At
      <4>2. "orphan" \in Holds(t) /\ job'.at = "term"
        BY <1>0, <3>2, <4>1, Frames DEF Holds, Labels
      <4>. QED
        BY <2>5, <2>11, <4>2 DEF Verify, Evidence, Known
    <3>. QED
      BY <2>3, <2>11, <3>1, <3>2 DEF Verify, verifyStillOrphan
  <2>12. CASE Term \/ Grace \/ Kill
    <3>1. "orphan" \in seen'
      BY <2>2, <2>4, <2>12 DEF Term, Grace, Kill, At, Evidence, Known
    <3>2. job'.at \in {"grace", "kill", "mourn", "audit"}
      BY <1>0, <2>12, Frames DEF Term, Grace, Kill, Send, Denied, Labels
    <3>. QED
      BY <3>1, <3>2 DEF Evidence, Known
  <2>13. CASE Remove_ \/ Mourn
    BY <1>0, <2>6, <2>13, Frames DEF Remove_, Mourn
  <2>14. CASE Clear \/ Bootout \/ Disable \/ Enable
    BY <2>1, <2>2, <2>14, OfIsOurs DEF Clear, Bootout, Disable, Enable, At
  <2>. QED
    BY <1>2, <2>7, <2>8, <2>9, <2>10, <2>11, <2>12, <2>13, <2>14 DEF Apply
<1>3. CASE Die
  BY <1>3, DieTypes DEF Job, Evidence, Known
<1>4. ASSUME World, Watch PROVE Evidence'
  <2>1. /\ job'.at = job.at /\ job'.cur = job.cur /\ job'.cmd = job.cmd /\ job'.ids = job.ids
        /\ Of' = Of
    BY <1>0, <1>4, WorldTypes DEF JobType, Of
  <2>2. job.cmd \in {"apps", "orphans"} /\ job.cur # {} => seen \subseteq seen'
    <3>1. \A t : job.cmd \in {"apps", "orphans"} /\ job.cur = {t} => seen \subseteq seen'
      BY <1>4, <2>1, Remembered
    <3>. QED
      BY <1>0, <3>1 DEF HandOK
  <2>3. job.cur = {} => job.at \in Idle
    BY <1>0 DEF HandOK
  <2>. QED
    BY <2>1, <2>2, <2>3 DEF Evidence, Known, KeyOf, Idle
<1>5. CASE UNCHANGED vars
  BY <1>5 DEF vars, Evidence, KeyOf, Of
<1>. QED
  BY <1>1, <1>2, <1>3, <1>4, <1>5 DEF Next, Command, Apply

LEMMA InitTypes == Init => TypeOK
<1>. SUFFICES ASSUME Init PROVE TypeOK
  OBVIOUS
<1>1. PICK c \in Commands : job = Job(c, "start")
  BY DEF Init
<1>2. job \in JobType(job.total) /\ HandOK
  BY <1>1 DEF JobType, HandOK, Job, Labels, Idle
<1>3. tree \subseteq Paths
  BY <1>1 DEF Init, Paths, Job
<1>4. fresh \subseteq AppDirs /\ spotted \subseteq App /\ listed \subseteq App /\ blind \in BOOLEAN
  BY DEF Init
<1>5. proc \in [Pid -> Process \cup {NoProc}] /\ loaded \subseteq Service /\ enabled \subseteq Service
  BY DEF Init
<1>. QED
  BY <1>2, <1>3, <1>4, <1>5, TypeParts DEF Init, WorldOK, PastOK

LEMMA CleanInvHolds == Spec => []CleanInv
<1>1. Init => CleanInv
  <2>. SUFFICES ASSUME Init PROVE CleanInv
    OBVIOUS
  <2>1. PICK c \in Commands : job = Job(c, "start")
    BY DEF Init
  <2>. QED
    BY <2>1, InitTypes
       DEF Init, CleanInv, Job, Aim, Evidence, Known, Vouchers, Open, Idle
<1>2. CleanInv /\ [Next]_vars => CleanInv'
  BY TypesKept, AimKept, EvidenceKept, VouchersKept, OpenKept DEF CleanInv
<1>. QED
  BY <1>1, <1>2, PTL DEF Spec

(* The variables of the cleaning commands keep their types, and a command  *)
(* has exactly one action in hand while it applies it, none before, between*)
(* and after: the loops of internal/cli/caches_cmd.go:115-137 and their    *)
(* like put one away before they turn to the next.                         *)
THEOREM TypeCorrect == Spec => []TypeOK
<1>1. CleanInv => TypeOK
  BY DEF CleanInv
<1>. QED
  BY <1>1, CleanInvHolds, PTL

-----------------------------------------------------------------------------
(* The walls. *)

LEMMA PathSeq == \A p \in Paths : p \in Seq(UNION {ToSet(q) : q \in Paths}) /\ p # <<>>
BY CleanersAssumption

(* What is below an entry of a directory is strictly below the directory.  *)
LEMMA BelowEntry ==
    ASSUME NEW d \in Paths, NEW e \in Paths, NEW p \in Paths,
           IsPrefix(d, e), Front(e) = d, IsPrefix(e, p)
    PROVE  IsStrictPrefix(d, p)
<1>. DEFINE C == UNION {ToSet(q) : q \in Paths}
<1>1. d \in Seq(C) /\ e \in Seq(C) /\ p \in Seq(C) /\ e # <<>>
  BY PathSeq
<1>. HIDE DEF C
<1>2. /\ Len(d) <= Len(e) /\ Len(e) <= Len(p)
      /\ SubSeq(d, 1, Len(d)) = SubSeq(e, 1, Len(d)) /\ SubSeq(e, 1, Len(e)) = SubSeq(p, 1, Len(e))
  BY DEF IsPrefix
<1>3. Len(d) = Len(e) - 1 /\ Len(e) > 0
  BY <1>1 DEF Front
<1>4. \A i \in 1..Len(e) : e[i] = p[i]
  <2>. SUFFICES ASSUME NEW i \in 1..Len(e) PROVE e[i] = p[i]
    OBVIOUS
  <2>1. SubSeq(e, 1, Len(e))[i] = e[i] /\ SubSeq(p, 1, Len(e))[i] = p[i]
    BY <1>1, <1>2
  <2>. QED
    BY <1>2, <2>1
<1>5. SubSeq(e, 1, Len(d)) = SubSeq(p, 1, Len(d))
  BY <1>1, <1>2, <1>3, <1>4
<1>. QED
  BY <1>1, <1>2, <1>3, <1>5 DEF IsStrictPrefix, IsPrefix

(* Only two steps of a command take files away. *)
LEMMA OnlyRemovals ==
    ASSUME CleanInv, Next, job' # job, tree' # tree
    PROVE  /\ job.at \in Busy
           /\ \/ Clear /\ job.cmd = "caches"
              \/ Remove_ /\ job.cmd \in {"dev", "apps"}
<1>1. ASSUME UNCHANGED tree PROVE FALSE
  BY <1>1
<1>2. ~World
  BY DEF World, world, files
<1>3. Command
  BY <1>2 DEF Next, Die, world, files
<1>4. Clear \/ Remove_
  BY <1>3 DEF Command, Scan, Confirm, Turn, Audit, Check, Mdfind, Folders, Stat, Unique, Verify,
              Term, Grace, Kill, Mourn, Bootout, Disable, Enable, world, files
<1>5. job.at \in Busy
  BY <1>4, BusyLabels DEF Clear, Remove_, At
<1>. QED
  BY <1>4, <1>5, OfIsOurs DEF CleanInv, Clear, Remove_, At

LEMMA TakenIsBelow ==
    ASSUME NEW e, Gone(e) \/ Part(e), NEW p \in tree \ tree'
    PROVE  IsPrefix(e, p)
BY DEF Gone, Part, Below

LEMMA WallsStand == CleanInv /\ [Next]_vars => WallsHold
<1>. SUFFICES ASSUME CleanInv, Next, job' # job, NEW p \in tree \ tree' PROVE Allowed(p)
  BY DEF WallsHold, vars
<1>0. /\ TypeOK /\ Aim /\ job.at \in Busy /\ Of \in Plausible(job.cmd) /\ p \in Paths
      /\ tree' # tree
  BY OnlyRemovals, OfIsPlausible, TypeParts DEF CleanInv, WorldOK
<1>1. CASE Clear /\ job.cmd = "caches"
  <2>1. PICK e \in job.rest : Gone(e) \/ Part(e)
    BY <1>0, <1>1 DEF Clear, files
  <2>2. IsPrefix(e, p) /\ IsPrefix(Of, e) /\ Front(e) = Of /\ e \in Paths
    BY <1>0, <2>1, TakenIsBelow, TypeParts DEF Aim, JobType
  <2>3. Of \in (CacheDirs \ ReportOnly) \cap Paths
    BY <1>0, <1>1 DEF Plausible
  <2>. QED
    BY <1>0, <1>1, <2>2, <2>3, BelowEntry DEF Allowed
<1>2. CASE Remove_ /\ job.cmd = "dev"
  <2>1. IsPrefix(Of, p)
    BY <1>2, TakenIsBelow DEF Remove_
  <2>2. Of \in Paths /\ Last(Of) \in Targets
    BY <1>0, <1>2 DEF Plausible
  <2>3. CanDelete(NewSafety(ScanRoots, {".git"}), Of)
    BY <1>0, <1>2 DEF Aim, Remove_, At, DelSafety
  <2>4. ~HasPart(Of, {".git"}) /\ \E r \in ScanRoots : IsStrictPrefix(r, Of)
    BY <2>3 DEF CanDelete, NewSafety, Inside
  <2>. QED
    BY <1>2, <2>1, <2>2, <2>4 DEF Allowed
<1>3. CASE Remove_ /\ job.cmd = "apps"
  <2>1. IsPrefix(Of, p)
    BY <1>3, TakenIsBelow DEF Remove_
  <2>2. Of \in AppDirs /\ candidateFor(Of)
    BY <1>0, <1>3 DEF Plausible
  <2>. QED
    BY <1>3, <2>1, <2>2 DEF Allowed, candidateFor
<1>. QED
  BY <1>0, <1>1, <1>2, <1>3, OnlyRemovals

-----------------------------------------------------------------------------
(* Strangers. *)

(* A signal is sent from the steps of orphans past verify only.            *)
LEMMA SignalsComeFrom ==
    ASSUME CleanInv, Next, job'.at \in {"grace", "mourn"}, job'.at # job.at
    PROVE  job.at \in {"term", "grace", "kill", "mourn"}
<1>0. TypeOK /\ Aim /\ job \in JobType(job.total)
  BY TypeParts DEF CleanInv
<1>1. ~World
  BY <1>0, WorldTypes DEF JobType
<1>2. ~Die
  BY <1>0, DieTypes DEF Job
<1>3. ~(Scan \/ Confirm \/ Turn \/ Audit)
  BY <1>0, ScanTypes, ConfirmTypes, TurnTypes, AuditTypes
<1>4. Apply
  BY <1>1, <1>2, <1>3 DEF Next, Command, Apply
<1>5. ~(Check \/ Clear \/ Mdfind \/ Folders)
  <2>1. ASSUME NEW Q, job' = [job EXCEPT !.rest = Q] PROVE job'.at = job.at
    BY <1>0, <2>1 DEF JobType
  <2>2. ASSUME NEW Q, job' = [job EXCEPT !.at = "clear", !.rest = Q] PROVE job'.at = "clear"
    BY <1>0, <2>2 DEF JobType
  <2>3. ASSUME NEW I, NEW l, job' = [job EXCEPT !.at = l, !.ids = I] PROVE job'.at = l
    BY <1>0, <2>3 DEF JobType
  <2>4. ~Check
    BY <1>0, <2>2, Frames DEF Check, Labels
  <2>5. ~Clear
    BY <1>0, <2>1, Frames DEF Clear, At
  <2>6. ~(Mdfind \/ Folders)
    BY <1>0, <2>3, Frames DEF Mdfind, Folders
  <2>. QED
    BY <2>4, <2>5, <2>6
<1>6. ~(Stat \/ Unique \/ Remove_ \/ Verify \/ Bootout \/ Disable \/ Enable)
  BY <1>0, Frames DEF Stat, Unique, Remove_, Verify, Bootout, Disable, Enable, Launchctl, Labels
<1>. QED
  BY <1>4, <1>5, <1>6 DEF Apply, Term, Grace, Kill, Mourn, At

LEMMA StrangersStay == CleanInv /\ [Next]_vars => StrangersAreLate
<1>1. ASSUME CleanInv, Next PROVE StrangersAreLate
  BY <1>1, SignalsComeFrom DEF CleanInv, Vouchers, StrangersAreLate
<1>2. ASSUME UNCHANGED vars PROVE StrangersAreLate
  BY <1>2 DEF vars, StrangersAreLate
<1>. QED
  BY <1>1, <1>2

(* Whatever the machine, its links, its names and its processes: a command *)
(* takes files only from behind its walls, and signals only the process    *)
(* that verify approved of or one that was given its pid since             *)
(* (core/safety.go:58-94; procsig/module.go:152-198).                      *)
THEOREM NoStrayStrike == Spec => StrikesAreAimed
<1>1. CleanInv /\ [Next]_vars => [WallsHold /\ StrangersAreLate]_vars
  BY WallsStand, StrangersStay
<1>. QED
  BY <1>1, CleanInvHolds, PTL DEF Spec, StrikesAreAimed

-----------------------------------------------------------------------------
(* The audit log. *)

LEMMA OkIsDone == CleanInv /\ [Next]_vars => OkMeansDone
<1>. SUFFICES ASSUME CleanInv, [Next]_vars, job'.at = "audit", job.at # "audit", job'.ok
              PROVE  OkMeansDone
  BY DEF OkMeansDone, At
<1>0. TypeOK /\ Aim /\ job \in JobType(job.total) /\ Next
  BY TypeParts DEF CleanInv, vars
<1>1. ~World
  BY <1>0, WorldTypes DEF JobType
<1>2. ~Die
  BY <1>0, DieTypes DEF Job
<1>3. ~(Scan \/ Confirm \/ Turn \/ Audit)
  BY <1>0, ScanTypes, ConfirmTypes, TurnTypes, AuditTypes
<1>4. Apply
  BY <1>0, <1>1, <1>2, <1>3 DEF Next, Command, Apply
<1>5. job.at \in Busy
  BY <1>0, <1>4, ApplyTypes
<1>6. ~Fail /\ \A l \in Busy : Goto(l) => l = "audit"
  BY <1>0, Frames DEF Busy
<1>7. ~(Check \/ Mdfind \/ Folders)
  <2>1. ASSUME NEW Q, job' = [job EXCEPT !.at = "clear", !.rest = Q] PROVE job'.at = "clear"
    BY <1>0, <2>1 DEF JobType
  <2>2. ASSUME NEW I, NEW l, job' = [job EXCEPT !.at = l, !.ids = I] PROVE job'.at = l
    BY <1>0, <2>2 DEF JobType
  <2>3. ~Check
    BY <1>6, <2>1, BusyLabels DEF Check
  <2>4. ~(Mdfind \/ Folders)
    BY <1>6, <2>2 DEF Mdfind, Folders
  <2>. QED
    BY <2>3, <2>4
<1>8. ~(Stat \/ Unique \/ Verify \/ Kill \/ Bootout)
  BY <1>6, BusyLabels DEF Stat, Unique, Verify, Kill, Send, Denied, Bootout
<1>9. CASE Clear
  <2>1. ASSUME NEW e, job' = [job EXCEPT !.rest = @ \ {e}] PROVE job'.at = job.at
    BY <1>0, <2>1 DEF JobType
  <2>2. UNCHANGED tree
    BY <1>9, <2>1 DEF Clear, files
  <2>3. job.cmd = "caches"
    BY <1>0, <1>5, <1>9, OfIsOurs DEF Clear, At
  <2>. QED
    BY <2>2, <2>3 DEF OkMeansDone
<1>10. CASE Remove_
  <2>1. job.cmd \in {"dev", "apps"}
    BY <1>0, <1>5, <1>10, OfIsOurs DEF Remove_, At
  <2>2. tree' = tree \ Below(Of)
    BY <1>6, <1>10 DEF Remove_, Gone
  <2>. QED
    BY <2>1, <2>2 DEF OkMeansDone, Below
<1>11. CASE Term \/ Grace \/ Mourn
  <2>1. job.cmd = "orphans"
    BY <1>0, <1>5, <1>11, OfIsOurs DEF Term, Grace, Mourn, At
  <2>2. proc[Of] = NoProc /\ UNCHANGED vouched
    BY <1>6, <1>11, BusyLabels DEF Term, Grace, Mourn, Send, Denied, Still, past
  <2>3. Of \notin vouched'
    BY <2>2 DEF CleanInv, Vouchers
  <2>. QED
    BY <2>1, <2>3 DEF OkMeansDone
<1>12. CASE Disable \/ Enable
  <2>1. /\ Disable => job.cmd = "disable" /\ enabled' = enabled \ {Of}
        /\ Enable => job.cmd = "restore" /\ enabled' = enabled \cup {Of}
    BY <1>0, <1>5, <1>6, <1>12, OfIsOurs DEF Disable, Enable, At, Launchctl
  <2>. QED
    BY <1>12, <2>1 DEF OkMeansDone
<1>. QED
  BY <1>4, <1>7, <1>8, <1>9, <1>10, <1>11, <1>12 DEF Apply

(* The audit log of every command is true on every machine: an action      *)
(* that is audited ok has done what it says, and whatever was hit is in    *)
(* the log before the next action, done or failed (audit/audit.go:1;       *)
(* cli/caches_cmd.go:119-137, orphans_cmd.go:109-131).                     *)
THEOREM LogIsTrue == Spec => AuditIsTrue
<1>1. CleanInv /\ [Next]_vars => CleanInv'
  BY TypesKept, AimKept, EvidenceKept, VouchersKept, OpenKept DEF CleanInv
<1>2. CleanInv' => StruckIsLogged'
  BY TypeParts DEF CleanInv, TypeOK, Idle, Open, StruckIsLogged
<1>3. CleanInv /\ [Next]_vars => [OkMeansDone /\ StruckIsLogged']_vars
  BY <1>1, <1>2, OkIsDone
<1>. QED
  BY <1>3, CleanInvHolds, PTL DEF Spec, AuditIsTrue

-----------------------------------------------------------------------------
(* The promise. *)

LEMMA CommandStays == ASSUME CleanInv, Next PROVE job'.cmd = job.cmd
<1>0. TypeOK /\ job \in JobType(job.total)
  BY TypeParts DEF CleanInv
<1>1. CASE Scan \/ Confirm \/ Turn \/ Audit
  BY <1>0, <1>1, ScanTypes, ConfirmTypes, TurnTypes, AuditTypes
<1>2. CASE Apply
  BY <1>0, <1>2, ApplyTypes DEF Kept
<1>3. CASE Die
  BY <1>0, <1>3, DieTypes DEF Job
<1>4. CASE World
  BY <1>0, <1>4, WorldTypes DEF JobType
<1>. QED
  BY <1>1, <1>2, <1>3, <1>4 DEF Next, Command, Apply

(* What is newly hit by apps and by orphans was proved.                    *)
LEMMA OnlyProvedIsHit ==
    ASSUME CleanInv, Next, job.cmd \in {"apps", "orphans"}, NEW t \in struck' \ struck
    PROVE  t \in job.cur /\ \E P \in Proofs[t] : P \subseteq seen
<1>0. TypeOK /\ Aim /\ Evidence
  BY DEF CleanInv
<1>1. ~(World \/ Die)
  BY DEF World, Die
<1>2. ~(Scan \/ Confirm \/ Turn \/ Audit)
  BY DEF Scan, Confirm, Turn, Audit, Still, past
<1>3. Apply
  BY <1>1, <1>2 DEF Next, Command, Apply
<1>4. job.at \in Busy /\ job.cur = {Of} /\ Of \in Plausible(job.cmd)
  BY <1>0, <1>3, ApplyTypes, OfIsPlausible
<1>5. ~(Clear \/ Bootout \/ Disable \/ Enable)
  BY <1>0, <1>4, OfIsOurs DEF Clear, Bootout, Disable, Enable, At
<1>6. ~(Check \/ Mdfind \/ Folders \/ Stat \/ Unique \/ Verify \/ Grace \/ Mourn)
  BY DEF Check, Mdfind, Folders, Stat, Unique, Verify, Grace, Mourn, Still, past
<1>7. Remove_ \/ Term \/ Kill
  BY <1>3, <1>5, <1>6 DEF Apply
<1>8. t = Of
  BY <1>4, <1>7 DEF Remove_, Term, Kill, Send, Denied, Still, past, Strike
<1>9. CASE Remove_
  <2>1. job.cmd = "apps" /\ Fact \ {"orphan"} \subseteq seen
    BY <1>0, <1>4, <1>9, OfIsOurs DEF Remove_, At, Evidence, Known
  <2>2. Of \in AppDirs /\ Of \notin Pid
    BY <1>4, <2>1, CleanersAssumption DEF Plausible, AppDirs
  <2>. QED
    BY <1>4, <1>8, <2>1, <2>2 DEF Proofs, Deletable
<1>10. CASE Term \/ Kill
  <2>1. Of \in Pid /\ "orphan" \in seen
    BY <1>0, <1>4, <1>10, OfIsOurs DEF Term, Kill, At, Evidence, Known
  <2>. QED
    BY <1>4, <1>8, <2>1 DEF Proofs, Deletable
<1>. QED
  BY <1>7, <1>9, <1>10

(* `apps clean` and `orphans kill` implement the deleter's promise: a      *)
(* directory is removed, and a pid signalled, only when every fact of its  *)
(* proof has been true since the command turned to it, whatever programs,  *)
(* Spotlight, other processes and Ctrl-C do meanwhile                      *)
(* (orphanapps.go:259-297; procsig/module.go:123-151).                     *)
THEOREM Refines == Spec => KeepsPromise
<1>1. Init => Promise!Init
  <2>. SUFFICES ASSUME Init PROVE Promise!Init
    OBVIOUS
  <2>1. Target_ = {}
    BY DEF Init, Target_, Job
  <2>2. [t \in Deletable |-> Holds(t)] \in [Deletable -> SUBSET Fact]
    BY DEF Holds, Fact
  <2>3. seen = {}
    BY DEF Init
  <2>. QED
    BY <2>1, <2>2, <2>3 DEF Promise!Init
<1>2. CleanInv /\ CleanInv' /\ [Next]_vars => [Promise!Next]_(Promise!vars)
  <2>1. ASSUME CleanInv, CleanInv', Next PROVE Promise!Next
    <3>1. [t \in Deletable |-> Holds(t)]' \in [Deletable -> SUBSET Fact]
      BY DEF Holds, Fact
    <3>2. Target_' = {} \/ \E t \in Deletable : Target_' = {t}
      <4>1. TypeOK' /\ Aim'
        BY <2>1 DEF CleanInv
      <4>2. job'.cur = {} \/ (job'.cur = {Of'} /\ Of' \in Plausible(job'.cmd))
        BY <4>1 DEF TypeOK, Aim
      <4>3. job'.cmd \in {"apps", "orphans"} => Plausible(job'.cmd) \subseteq Deletable
        BY DEF Plausible, Deletable
      <4>. QED
        BY <4>2, <4>3 DEF Target_, Pledged
    <3>3. [a \in {"command"} |-> Target_]' \in [{"command"} -> {{}} \cup {{t} : t \in Deletable}]
      BY <3>2
    <3>4. Promise!Witnessed("command")
      <4>1. CASE Target_' = {}
        BY <2>1, <4>1 DEF Promise!Witnessed, Next, Watch
      <4>2. ASSUME NEW t \in Deletable, Target_' = {t} PROVE Promise!Witnessed("command")
        <5>1. UNION {Holds(x)' : x \in {t}} = Holds(t)'
          OBVIOUS
        <5>2. seen' = (IF Target_ = {t} THEN seen ELSE {}) \cup Holds(t)'
          BY <2>1, <4>2, <5>1 DEF Next, Watch
        <5>3. UNION {[y \in Deletable |-> Holds(y)]'[x] : x \in {t}} = Holds(t)'
          OBVIOUS
        <5>. QED
          BY <4>2, <5>2, <5>3 DEF Promise!Witnessed
      <4>. QED
        BY <3>2, <4>1, <4>2
    <3>5. ASSUME NEW t \in Deletable,
                 t \notin (IF Pledged THEN struck ELSE {}), t \in (IF Pledged THEN struck ELSE {})'
          PROVE  Promise!Proven("command", t)
      <4>1. job.cmd \in {"apps", "orphans"} /\ t \in struck' \ struck
        BY <2>1, <3>5, CommandStays DEF Pledged
      <4>. QED
        BY <2>1, <4>1, OnlyProvedIsHit DEF Promise!Proven, Target_, Pledged
    <3>. QED
      BY <3>1, <3>3, <3>4, <3>5 DEF Promise!Next, Promise!World
  <2>2. ASSUME UNCHANGED vars PROVE UNCHANGED Promise!vars
    BY <2>2 DEF vars, world, files, appworld, services, past, Promise!vars, Holds, IsOrphan, Match,
                Answer, Plain, Large, IsDir, UniqueAllocated, Reached, Below, Target_, Pledged
  <2>. QED
    BY <2>1, <2>2
<1>. QED
  BY <1>1, <1>2, CleanInvHolds, PTL DEF Spec, KeepsPromise, Promise!Spec

-----------------------------------------------------------------------------
(* The total. *)

(* What holds of nothing, and of a finite set when it does without some   *)
(* element of it, holds of every subset.                                   *)
LEMMA Descent ==
    ASSUME NEW S, IsFiniteSet(S), NEW B, {} \in B,
           \A s \in SUBSET S : s # {} => \E x \in s : s \ {x} \in B => s \in B
    PROVE  SUBSET S \subseteq B
<1>. DEFINE Bad == (SUBSET S) \ B
<1>1. SUFFICES ASSUME Bad # {} PROVE FALSE
  OBVIOUS
<1>2. Bad \subseteq FiniteSubsetsOf(S)
  BY FS_Subset DEF FiniteSubsetsOf
<1>3. PICK u \in Bad : \A v \in Bad : <<v, u>> \notin StrictSubsetOrdering(S)
  <2>. HIDE DEF Bad
  <2>. QED
    BY <1>1, <1>2, FS_StrictSubsetOrderingWellFounded, WFMin
<1>4. u \in SUBSET S /\ u \notin B /\ u # {}
  OBVIOUS
<1>5. PICK x \in u : u \ {x} \in B => u \in B
  BY <1>4
<1>6. u \ {x} \in Bad
  BY <1>4, <1>5
<1>7. <<u \ {x}, u>> \in StrictSubsetOrdering(S)
  BY <1>4 DEF StrictSubsetOrdering
<1>. QED
  BY <1>3, <1>6, <1>7

(* The bytes of files, one by one: a sum of sizes is a count of these.     *)
Units(Q) == UNION {{q} \X (1..Size[q]) : q \in Q \cap File}

LEMMA UnitsOfBoth ==
    ASSUME NEW A, NEW B
    PROVE  /\ Units(A \cup B) = Units(A) \cup Units(B)
           /\ A \cap B = {} => Units(A) \cap Units(B) = {}
<1>1. \A Q, u : u \in Units(Q) <=> \E q \in Q \cap File : u \in {q} \X (1..Size[q])
  BY DEF Units
<1>2. \A u, q, r : u \in {q} \X (1..Size[q]) /\ u \in {r} \X (1..Size[r]) => q = r
  OBVIOUS
<1>3. \A u : u \in Units(A \cup B) <=> u \in Units(A) \cup Units(B)
  BY <1>1
<1>4. ASSUME A \cap B = {}, NEW u, u \in Units(A), u \in Units(B) PROVE FALSE
  BY <1>1, <1>2, <1>4
<1>. QED
  BY <1>3, <1>4

LEMMA UnitsProps ==
    ASSUME NEW Q \in SUBSET Paths
    PROVE  /\ IsFiniteSet(Units(Q)) /\ Cardinality(Units(Q)) \in Nat
           /\ \A q \in Q \cap File : Cardinality(Units(Q)) = Size[q] + Cardinality(Units(Q \ {q}))
<1>. DEFINE D(q) == {q} \X (1..Size[q])
            T == {D(q) : q \in Q \cap File}
<1>1. \A q \in Q \cap File : IsFiniteSet(D(q)) /\ Cardinality(D(q)) = Size[q]
  <2>. SUFFICES ASSUME NEW q \in Q \cap File PROVE IsFiniteSet(D(q)) /\ Cardinality(D(q)) = Size[q]
    OBVIOUS
  <2>1. IsFiniteSet({q}) /\ Cardinality({q}) = 1
    BY FS_Singleton
  <2>2. Size[q] \in Nat /\ IsFiniteSet(1..Size[q]) /\ Cardinality(1..Size[q]) = Size[q]
    <3>1. Size[q] \in Nat
      BY CleanersAssumption
    <3>2. /\ IsFiniteSet(1..Size[q])
          /\ Cardinality(1..Size[q]) = IF 1 > Size[q] THEN 0 ELSE Size[q] - 1 + 1
      BY <3>1, FS_Interval
    <3>. QED
      BY <3>1, <3>2
  <2>3. IsFiniteSet(D(q)) /\ Cardinality(D(q)) = 1 * Size[q]
    BY <2>1, <2>2, FS_Product
  <2>. QED
    BY <2>2, <2>3
<1>2. IsFiniteSet(Q \cap File)
  BY CleanersAssumption, FS_Subset
<1>3. IsFiniteSet(T)
  <2>. DEFINE f == [q \in Q \cap File |-> D(q)]
  <2>1. f \in Surjection(Q \cap File, T)
    BY DEF Surjection
  <2>. QED
    BY <1>2, <2>1, FS_Surjection
<1>4. IsFiniteSet(Units(Q))
  BY <1>1, <1>3, FS_UNION DEF Units
<1>5. ASSUME NEW q \in Q \cap File PROVE Cardinality(Units(Q)) = Size[q] + Cardinality(Units(Q \ {q}))
  <2>1. Units(Q) = D(q) \cup Units(Q \ {q}) /\ D(q) \cap Units(Q \ {q}) = {}
    <3>. DEFINE Z == Q \ {q}
    <3>1. Q = {q} \cup Z /\ {q} \cap Z = {}
      OBVIOUS
    <3>2. Units({q}) = D(q)
      BY DEF Units
    <3>. HIDE DEF D, Z
    <3>3. Units({q} \cup Z) = D(q) \cup Units(Z) /\ D(q) \cap Units(Z) = {}
      BY <3>1, <3>2, UnitsOfBoth
    <3>4. Units(Q) = D(q) \cup Units(Z)
      BY <3>1, <3>3
    <3>. QED
      BY <3>3, <3>4 DEF Z
  <2>2. IsFiniteSet(Units(Q \ {q}))
    BY <1>4, <2>1, FS_Subset
  <2>3. Cardinality(D(q) \cap Units(Q \ {q})) = 0
    BY <2>1, FS_EmptySet
  <2>4. Cardinality(D(q)) = Size[q] /\ IsFiniteSet(D(q)) /\ Size[q] \in Nat
    <3>. HIDE DEF D
    <3>. QED
      BY <1>1, CleanersAssumption
  <2>5. Cardinality(Units(Q \ {q})) \in Nat
    BY <2>2, FS_CardinalityType
  <2>6. Cardinality(Units(Q)) = Cardinality(D(q)) + Cardinality(Units(Q \ {q})) - 0
    BY <2>1, <2>2, <2>3, <2>4, FS_Union
  <2>. QED
    BY <2>4, <2>5, <2>6
<1>. QED
  BY <1>4, <1>5, FS_CardinalityType

(* The sum the module takes counts them.                                   *)
LEMMA BytesAre ==
    ASSUME NEW Q \in SUBSET Paths
    PROVE  Bytes(Q) = Cardinality(Units(Q))
<1>. DEFINE R == Q \cap File
            c(s) == CHOOSE x \in s : TRUE
            P(g) == g = [s \in SUBSET R |-> IF s = {} THEN 0 ELSE Size[c(s)] + g[s \ {c(s)}]]
            h == [s \in SUBSET R |-> Cardinality(Units(s))]
            G == CHOOSE g : P(g)
<1>1. Bytes(Q) = G[R]
  BY DEF Bytes, MapThenSumSet, MapThenFoldSet
<1>2. IsFiniteSet(R)
  BY CleanersAssumption, FS_Subset
<1>3. \A s \in SUBSET R : s # {} => c(s) \in s
  OBVIOUS
<1>4. Cardinality(Units({})) = 0
  <2>1. Units({}) = {}
    BY DEF Units
  <2>. QED
    BY <2>1, FS_EmptySet
<1>5. \A s \in SUBSET R : s # {} => h[s] = Size[c(s)] + h[s \ {c(s)}]
  <2>. SUFFICES ASSUME NEW s \in SUBSET R, s # {} PROVE h[s] = Size[c(s)] + h[s \ {c(s)}]
    OBVIOUS
  <2>1. c(s) \in s \cap File /\ s \in SUBSET Paths /\ s \ {c(s)} \in SUBSET R
    BY <1>3
  <2>. HIDE DEF c, R
  <2>2. Cardinality(Units(s)) = Size[c(s)] + Cardinality(Units(s \ {c(s)}))
    BY <2>1, UnitsProps
  <2>. QED
    BY <2>1, <2>2
<1>6. P(h)
  <2>1. h[{}] = 0
    BY <1>4
  <2>. QED
    BY <1>5, <2>1
<1>7. P(G)
  <2>. HIDE DEF P, h
  <2>. QED
    BY <1>6
<1>8. G[{}] = h[{}]
  <2>1. {} \in SUBSET R
    OBVIOUS
  <2>. QED
    BY <1>4, <1>7, <2>1
<1>9. ASSUME NEW s \in SUBSET R, s # {}
      PROVE  \E x \in s : G[s \ {x}] = h[s \ {x}] => G[s] = h[s]
  <2>1. G[s] = Size[c(s)] + G[s \ {c(s)}]
    <3>. HIDE DEF G, c
    <3>. QED
      BY <1>7, <1>9
  <2>2. h[s] = Size[c(s)] + h[s \ {c(s)}] /\ c(s) \in s
    BY <1>3, <1>5, <1>9
  <2>. HIDE DEF G, h, c
  <2>. QED
    BY <2>1, <2>2
<1>10. G[R] = h[R]
  <2>. DEFINE B == {s \in SUBSET R : G[s] = h[s]}
  <2>. HIDE DEF G, h, P, c, R
  <2>1. {} \in B
    BY <1>8
  <2>2. \A s \in SUBSET R : s # {} => \E x \in s : s \ {x} \in B => s \in B
    BY <1>9
  <2>3. SUBSET R \subseteq B
    <3>. HIDE DEF B
    <3>. QED
      BY <1>2, <2>1, <2>2, Descent
  <2>. QED
    BY <2>3
<1>. QED
  BY <1>1, <1>10 DEF Units

(* The files whose sizes are added up for a thing.                         *)
Counted(p) ==
    IF job.cmd = "apps" THEN OneName((Reached(p) \cap File) \ Sealed)
    ELSE IF Whole(p) THEN Below(p) ELSE {}

LEMMA OneNameProps ==
    ASSUME NEW Q
    PROVE  /\ OneName(Q) \subseteq Q
           /\ (\A p, q \in Q : Inode[p] = Inode[q] => p = q) => OneName(Q) = Q
<1>1. \A i \in {Inode[q] : q \in Q} : LET c == CHOOSE q \in Q : Inode[q] = i
                                      IN  c \in Q /\ Inode[c] = i
  OBVIOUS
<1>. QED
  BY <1>1 DEF OneName

LEMMA CountedProps ==
    ASSUME tree \subseteq Paths, NEW p
    PROVE  /\ Counted(p) \subseteq Below(p) /\ Counted(p) \in SUBSET Paths
           /\ SizeOf(p) = Cardinality(Units(Counted(p)))
<1>1. Reached(p) \subseteq Below(p) /\ Below(p) \in SUBSET Paths
  BY DEF Reached, Below
<1>2. Counted(p) \subseteq Below(p)
  BY <1>1, OneNameProps DEF Counted
<1>3. SizeOf(p) = Bytes(Counted(p))
  <2>1. Bytes({}) = 0
    <3>1. Units({}) = {}
      BY DEF Units
    <3>. QED
      BY <3>1, BytesAre, FS_EmptySet
  <2>. QED
    BY <2>1 DEF SizeOf, Counted, UniqueAllocated, DirSize
<1>. QED
  BY <1>1, <1>2, <1>3, BytesAre

(* The bytes of things that share no path are those of all of them.        *)
LEMMA SumOfParts ==
    ASSUME tree \subseteq Paths, NEW P \in SUBSET Paths,
           \A a, b \in P : a # b => Below(a) \cap Below(b) = {}
    PROVE  MapThenSumSet(SizeOf, P) = Cardinality(Units(UNION {Counted(p) : p \in P}))
<1>. DEFINE All(s) == UNION {Counted(p) : p \in s}
            c(s) == CHOOSE x \in s : TRUE
            R(g) == g = [s \in SUBSET P |-> IF s = {} THEN 0 ELSE SizeOf(c(s)) + g[s \ {c(s)}]]
            h == [s \in SUBSET P |-> Cardinality(Units(All(s)))]
            G == CHOOSE g : R(g)
<1>1. MapThenSumSet(SizeOf, P) = G[P]
  BY DEF MapThenSumSet, MapThenFoldSet
<1>2. IsFiniteSet(P)
  BY CleanersAssumption, FS_Subset
<1>3. \A s \in SUBSET P : s # {} => c(s) \in s
  OBVIOUS
<1>4. h[{}] = 0
  <2>1. Units(All({})) = {}
    BY DEF Units
  <2>. QED
    BY <2>1, FS_EmptySet
<1>5. ASSUME NEW s \in SUBSET P, NEW x \in s
      PROVE  Cardinality(Units(All(s))) = SizeOf(x) + Cardinality(Units(All(s \ {x})))
  <2>1. /\ All(s) \in SUBSET Paths /\ All(s \ {x}) \in SUBSET Paths /\ Counted(x) \in SUBSET Paths
        /\ All(s) = Counted(x) \cup All(s \ {x}) /\ Counted(x) \cap All(s \ {x}) = {}
    <3>1. \A p : Counted(p) \in SUBSET Paths /\ Counted(p) \subseteq Below(p)
      BY CountedProps
    <3>. QED
      BY <3>1
  <2>. HIDE DEF All
  <2>2. /\ Units(All(s)) = Units(Counted(x)) \cup Units(All(s \ {x}))
        /\ Units(Counted(x)) \cap Units(All(s \ {x})) = {}
    BY <2>1, UnitsOfBoth
  <2>3. SizeOf(x) = Cardinality(Units(Counted(x)))
    BY CountedProps
  <2>4. /\ IsFiniteSet(Units(Counted(x))) /\ IsFiniteSet(Units(All(s \ {x})))
        /\ Cardinality(Units(Counted(x))) \in Nat /\ Cardinality(Units(All(s \ {x}))) \in Nat
    BY <2>1, UnitsProps
  <2>5. Cardinality(Units(Counted(x)) \cap Units(All(s \ {x}))) = 0
    BY <2>2, FS_EmptySet
  <2>6. Cardinality(Units(All(s))) =
            Cardinality(Units(Counted(x))) + Cardinality(Units(All(s \ {x}))) - 0
    BY <2>2, <2>4, <2>5, FS_Union
  <2>. QED
    BY <2>3, <2>4, <2>6
<1>6. \A s \in SUBSET P : s # {} => h[s] = SizeOf(c(s)) + h[s \ {c(s)}]
  <2>. SUFFICES ASSUME NEW s \in SUBSET P, s # {} PROVE h[s] = SizeOf(c(s)) + h[s \ {c(s)}]
    OBVIOUS
  <2>1. c(s) \in s /\ s \ {c(s)} \in SUBSET P
    BY <1>3
  <2>. HIDE DEF c, All
  <2>. QED
    BY <1>5, <2>1
<1>7. R(h)
  <2>1. \A s \in SUBSET P : h[s] = IF s = {} THEN 0 ELSE SizeOf(c(s)) + h[s \ {c(s)}]
    <3>. HIDE DEF h, c
    <3>. QED
      BY <1>4, <1>6
  <2>2. h = [s \in SUBSET P |-> h[s]]
    OBVIOUS
  <2>. HIDE DEF h, c
  <2>. QED
    BY <2>1, <2>2
<1>8. R(G)
  <2>. HIDE DEF R, h
  <2>. QED
    BY <1>7
<1>9. G[{}] = h[{}]
  <2>1. {} \in SUBSET P
    OBVIOUS
  <2>. HIDE DEF G, h
  <2>. QED
    BY <1>4, <1>8, <2>1
<1>10. ASSUME NEW s \in SUBSET P, s # {}
       PROVE  \E x \in s : G[s \ {x}] = h[s \ {x}] => G[s] = h[s]
  <2>1. G[s] = SizeOf(c(s)) + G[s \ {c(s)}]
    <3>. HIDE DEF G, c
    <3>. QED
      BY <1>8, <1>10
  <2>2. h[s] = SizeOf(c(s)) + h[s \ {c(s)}] /\ c(s) \in s
    BY <1>3, <1>6, <1>10
  <2>. HIDE DEF G, h, c
  <2>. QED
    BY <2>1, <2>2
<1>11. G[P] = h[P]
  <2>. DEFINE B == {s \in SUBSET P : G[s] = h[s]}
  <2>. HIDE DEF G, h, R, c
  <2>1. {} \in B
    BY <1>9
  <2>2. \A s \in SUBSET P : s # {} => \E x \in s : s \ {x} \in B => s \in B
    BY <1>10
  <2>3. SUBSET P \subseteq B
    <3>. HIDE DEF B
    <3>. QED
      BY <1>2, <2>1, <2>2, Descent
  <2>. QED
    BY <2>3
<1>. QED
  BY <1>1, <1>11

(* Bounded numbers have a least and a greatest. *)
LEMMA Ends ==
    ASSUME NEW n \in Nat, NEW S \in SUBSET (0..n), S # {}
    PROVE  /\ \E m \in S : \A x \in S : m <= x
           /\ \E m \in S : \A x \in S : x <= m
<1>. DEFINE Ended(s) == (\E m \in s : \A x \in s : m <= x) /\ (\E m \in s : \A x \in s : x <= m)
            I == 0..n
            B == {s \in SUBSET I : s = {} \/ Ended(s)}
<1>1. IsFiniteSet(I)
  BY FS_Interval
<1>2. {} \in B
  OBVIOUS
<1>3. ASSUME NEW s \in SUBSET I, s # {} PROVE \E x \in s : s \ {x} \in B => s \in B
  <2>1. PICK x \in s : TRUE
    BY <1>3
  <2>2. ASSUME s \ {x} \in B PROVE Ended(s)
    <3>1. CASE s \ {x} = {}
      BY <3>1
    <3>2. CASE Ended(s \ {x})
      <4>1. PICK a \in s \ {x} : \A y \in s \ {x} : a <= y
        BY <3>2
      <4>2. PICK b \in s \ {x} : \A y \in s \ {x} : y <= b
        BY <3>2
      <4>3. \E m \in s : \A y \in s : m <= y
        <5>1. CASE a <= x
          BY <4>1, <5>1
        <5>2. CASE x <= a
          BY <4>1, <5>2
        <5>. QED
          BY <5>1, <5>2
      <4>4. \E m \in s : \A y \in s : y <= m
        <5>1. CASE b <= x
          BY <4>2, <5>1
        <5>2. CASE x <= b
          BY <4>2, <5>2
        <5>. QED
          BY <5>1, <5>2
      <4>. QED
        BY <4>3, <4>4
    <3>. QED
      BY <2>2, <3>1, <3>2
  <2>. QED
    BY <2>1, <2>2
<1>4. SUBSET I \subseteq B
  <2>1. \A s \in SUBSET I : s # {} => \E x \in s : s \ {x} \in B => s \in B
    BY <1>3
  <2>. HIDE DEF B, I
  <2>. QED
    BY <1>1, <1>2, <2>1, Descent
<1>. QED
  BY <1>4

(* A path is what its parts say, a prefix of one a part of it. *)
LEMMA PrefixProps ==
    ASSUME NEW p \in Paths, NEW q \in Paths
    PROVE  /\ Len(p) \in Nat /\ Len(p) > 0 /\ SubSeq(q, 1, Len(q)) = q
           /\ IsPrefix(p, q) <=> Len(p) <= Len(q) /\ p = SubSeq(q, 1, Len(p))
           /\ IsPrefix(p, q) /\ Len(p) = Len(q) => p = q
           /\ IsPrefix(p, q) => \A i \in 1..Len(p) : p[i] = q[i]
           /\ IsPrefix(p, p)
<1>. DEFINE C == UNION {ToSet(r) : r \in Paths}
<1>1. p \in Seq(C) /\ q \in Seq(C) /\ p # <<>> /\ q # <<>>
  BY CleanersAssumption
<1>. HIDE DEF C
<1>2. SubSeq(q, 1, Len(q)) = q /\ SubSeq(p, 1, Len(p)) = p
  BY <1>1
<1>3. Len(p) \in Nat /\ Len(p) > 0 /\ Len(q) \in Nat
  BY <1>1
<1>4. IsPrefix(p, q) <=> Len(p) <= Len(q) /\ p = SubSeq(q, 1, Len(p))
  BY <1>2 DEF IsPrefix
<1>5. IsPrefix(p, q) => \A i \in 1..Len(p) : p[i] = q[i]
  <2>. SUFFICES ASSUME IsPrefix(p, q), NEW i \in 1..Len(p) PROVE p[i] = q[i]
    OBVIOUS
  <2>1. SubSeq(q, 1, Len(p))[i] = q[i]
    BY <1>1, <1>3, <1>4
  <2>. QED
    BY <1>4, <2>1
<1>6. IsPrefix(p, p)
  BY <1>3 DEF IsPrefix
<1>7. IsPrefix(p, q) /\ Len(p) = Len(q) => p = q
  BY <1>2, <1>4
<1>. QED
  BY <1>2, <1>3, <1>4, <1>5, <1>6, <1>7

(* Two paths on the way to a third are on the way to each other. *)
LEMMA Comparable ==
    ASSUME NEW a \in Paths, NEW b \in Paths, NEW q \in Paths, IsPrefix(a, q), IsPrefix(b, q),
           Len(a) <= Len(b)
    PROVE  IsPrefix(a, b)
<1>. DEFINE C == UNION {ToSet(r) : r \in Paths}
<1>1. a \in Seq(C) /\ b \in Seq(C) /\ q \in Seq(C)
  BY CleanersAssumption
<1>. HIDE DEF C
<1>2. a = SubSeq(q, 1, Len(a)) /\ b = SubSeq(q, 1, Len(b)) /\ Len(b) <= Len(q)
  BY PrefixProps
<1>3. \A i \in 1..Len(a) : a[i] = b[i]
  BY PrefixProps
<1>4. SubSeq(b, 1, Len(a)) = a
  <2>1. SubSeq(b, 1, Len(a)) \in Seq(C) /\ Len(SubSeq(b, 1, Len(a))) = Len(a)
    BY <1>1
  <2>2. \A i \in 1..Len(a) : SubSeq(b, 1, Len(a))[i] = a[i]
    BY <1>1, <1>3
  <2>. QED
    BY <1>1, <2>1, <2>2
<1>. QED
  BY <1>4, PrefixProps

(* Every path's directory is there. *)
Rooted == \A q \in tree : Front(q) \in tree \cup {<<>>}

LEMMA NoFileAbove == \A p \in Paths : Front(p) # <<>> => Front(p) \in Paths \ File
BY CleanersAssumption DEF Paths

(* So is everything on the way to it, and none of that is a file.          *)
LEMMA OnTheWay ==
    ASSUME tree \subseteq Paths, Rooted, NEW q \in tree, NEW n \in 1..Len(q)
    PROVE  /\ SubSeq(q, 1, n) \in tree /\ Len(SubSeq(q, 1, n)) = n
           /\ n < Len(q) => SubSeq(q, 1, n) \notin File
<1>. DEFINE C == UNION {ToSet(r) : r \in Paths}
            N == {m \in 1..Len(q) : SubSeq(q, 1, m) \notin tree}
<1>1. q \in Seq(C) /\ Len(q) \in Nat /\ SubSeq(q, 1, Len(q)) = q
  BY CleanersAssumption
<1>. HIDE DEF C
<1>2. ASSUME NEW m \in 1..Len(q), m < Len(q)
      PROVE  /\ Front(SubSeq(q, 1, m + 1)) = SubSeq(q, 1, m) /\ SubSeq(q, 1, m) # <<>>
             /\ Len(SubSeq(q, 1, m)) = m
  <2>1. /\ Len(SubSeq(q, 1, m + 1)) = m + 1 /\ Len(SubSeq(q, 1, m)) = m
        /\ SubSeq(q, 1, m + 1) \in Seq(C) /\ SubSeq(q, 1, m) \in Seq(C)
    BY <1>1, <1>2
  <2>2. SubSeq(SubSeq(q, 1, m + 1), 1, m) = SubSeq(q, 1, m)
    BY <1>1, <1>2, <2>1
  <2>. QED
    BY <2>1, <2>2 DEF Front
<1>3. N = {}
  <2>1. SUFFICES ASSUME N # {} PROVE FALSE
    OBVIOUS
  <2>2. PICK m \in N : \A x \in N : x <= m
    <3>1. N \in SUBSET (0..Len(q))
      BY <1>1
    <3>. HIDE DEF N
    <3>. QED
      BY <1>1, <2>1, <3>1, Ends
  <2>3. m \in 1..Len(q) /\ m < Len(q) /\ SubSeq(q, 1, m) \notin tree
    <3>1. m \in 1..Len(q) /\ SubSeq(q, 1, m) \notin tree
      BY <2>2
    <3>2. ASSUME m = Len(q) PROVE FALSE
      <4>1. SubSeq(q, 1, m) = q
        BY <1>1, <3>2
      <4>. QED
        BY <3>1, <4>1
    <3>3. Len(q) \in Nat /\ m # Len(q)
      BY <1>1, <3>2
    <3>4. m < Len(q)
      BY <3>1, <3>3
    <3>. QED
      BY <3>1, <3>4
  <2>4. m + 1 \in 1..Len(q) /\ m + 1 \notin N
    BY <1>1, <2>2, <2>3
  <2>5. SubSeq(q, 1, m + 1) \in tree
    BY <2>4
  <2>. QED
    BY <1>2, <2>3, <2>5 DEF Rooted
<1>4. SubSeq(q, 1, n) \in tree
  BY <1>3
<1>5. ASSUME n < Len(q) PROVE SubSeq(q, 1, n) \notin File
  <2>1. SubSeq(q, 1, n + 1) \in Paths
    BY <1>1, <1>3, <1>5
  <2>. QED
    BY <1>2, <1>5, <2>1, NoFileAbove
<1>6. Len(SubSeq(q, 1, n)) = n
  BY <1>1
<1>. QED
  BY <1>4, <1>5, <1>6

LEMMA PrefixOfPrefix ==
    ASSUME NEW a \in Paths, NEW b \in Paths, NEW q \in Paths, IsPrefix(a, b), IsPrefix(b, q)
    PROVE  IsPrefix(a, q)
<1>. DEFINE C == UNION {ToSet(r) : r \in Paths}
<1>1. a \in Seq(C) /\ b \in Seq(C) /\ q \in Seq(C)
  BY CleanersAssumption
<1>. HIDE DEF C
<1>2. Len(a) \in Nat /\ Len(b) \in Nat /\ Len(q) \in Nat /\ Len(a) <= Len(b) /\ Len(b) <= Len(q)
  BY PrefixProps
<1>3. \A i \in 1..Len(a) : a[i] = q[i]
  <2>1. \A i \in 1..Len(a) : a[i] = b[i]
    BY PrefixProps
  <2>2. \A i \in 1..Len(b) : b[i] = q[i]
    BY PrefixProps
  <2>. QED
    BY <1>2, <2>1, <2>2
<1>4. SubSeq(q, 1, Len(a)) = a
  <2>1. SubSeq(q, 1, Len(a)) \in Seq(C) /\ Len(SubSeq(q, 1, Len(a))) = Len(a)
    BY <1>1, <1>2
  <2>2. \A i \in 1..Len(a) : SubSeq(q, 1, Len(a))[i] = a[i]
    BY <1>1, <1>2, <1>3
  <2>. QED
    BY <1>1, <2>1, <2>2
<1>. QED
  BY <1>2, <1>4, PrefixProps

(* What apart things hold is apart. *)
LEMMA ApartBelow ==
    ASSUME tree \subseteq Paths, NEW P \in SUBSET Paths, Apart(P)
    PROVE  \A a, b \in P : a # b => Below(a) \cap Below(b) = {}
<1>. SUFFICES ASSUME NEW a \in P, NEW b \in P, a # b, NEW q \in Below(a) \cap Below(b) PROVE FALSE
  OBVIOUS
<1>1. a \in Paths /\ b \in Paths /\ q \in Paths /\ IsPrefix(a, q) /\ IsPrefix(b, q)
  BY DEF Below
<1>2. Len(a) \in Nat /\ Len(b) \in Nat
  BY <1>1, PrefixProps
<1>3. CASE Len(a) <= Len(b)
  BY <1>1, <1>3, Comparable DEF Apart
<1>4. CASE Len(b) <= Len(a)
  BY <1>1, <1>4, Comparable DEF Apart
<1>. QED
  BY <1>2, <1>3, <1>4

(* An artefact starts at the first target name below its root. *)
FirstAt(p, n) ==
    \E r \in ScanRoots : /\ IsPrefix(r, p) /\ n \in Len(r)..Len(p) /\ p[n] \in Targets
                         /\ \A m \in Len(r)..(n - 1) : p[m] \notin Targets

LEMMA ArtefactsStart ==
    ASSUME tree \subseteq Paths
    PROVE  /\ \A p \in Artefacts : p \in Paths /\ p \in tree \ File /\ FirstAt(p, Len(p))
           /\ tree \cap Sealed = {} => \A p \in tree \ File : FirstAt(p, Len(p)) => p \in Artefacts
<1>1. ASSUME NEW p \in tree \ File
      PROVE  /\ p \in Paths /\ Len(p) \in Nat
             /\ \A r \in ScanRoots : IsPrefix(r, p) => Len(p) \in Len(r)..Len(p)
  <2>1. /\ p \in Paths /\ Len(p) \in Nat
        /\ \A r \in ScanRoots : r \in Paths /\ Len(r) \in Nat /\ (IsPrefix(r, p) => Len(r) <= Len(p))
    BY CleanersAssumption, PrefixProps
  <2>. QED
    BY <2>1
<1>2. \A p, r : p \in Reached(r) => IsPrefix(r, p)
  BY DEF Reached, Below
<1>3. ASSUME tree \cap Sealed = {}, NEW p \in tree, NEW r, IsPrefix(r, p) PROVE p \in Reached(r)
  BY <1>3 DEF Reached, Below
<1>4. ASSUME NEW p \in Artefacts PROVE p \in tree \ File /\ FirstAt(p, Len(p))
  BY <1>1, <1>2 DEF Artefacts, FirstAt, Last
<1>5. ASSUME tree \cap Sealed = {}, NEW p \in tree \ File, FirstAt(p, Len(p)) PROVE p \in Artefacts
  BY <1>3, <1>5 DEF Artefacts, FirstAt, Last
<1>. QED
  BY <1>1, <1>4, <1>5

LEMMA ArtefactsApart ==
    ASSUME tree \subseteq Paths, Apart(ScanRoots)
    PROVE  \A a, b \in Artefacts : a # b => Below(a) \cap Below(b) = {}
<1>. SUFFICES ASSUME NEW a \in Artefacts, NEW b \in Artefacts, a # b, NEW q \in Below(a) \cap Below(b),
                     Len(a) <= Len(b)
              PROVE  FALSE
  <2>1. \A p \in Artefacts : Len(p) \in Nat
    BY ArtefactsStart, PrefixProps
  <2>. QED
    BY <2>1
<1>1. a \in Paths /\ b \in Paths /\ q \in Paths /\ IsPrefix(a, q) /\ IsPrefix(b, q)
  BY ArtefactsStart DEF Below
<1>2. Len(a) \in Nat /\ Len(b) \in Nat /\ Len(a) > 0
  BY <1>1, PrefixProps
<1>3. IsPrefix(a, b) /\ Len(a) < Len(b)
  BY <1>1, <1>2, Comparable, PrefixProps
<1>4. PICK r \in ScanRoots : IsPrefix(r, a) /\ Len(a) \in Len(r)..Len(a) /\ a[Len(a)] \in Targets
  BY ArtefactsStart DEF FirstAt
<1>5. PICK s \in ScanRoots : IsPrefix(s, b) /\ \A m \in Len(s)..(Len(b) - 1) : b[m] \notin Targets
  BY ArtefactsStart DEF FirstAt
<1>6. r \in Paths /\ s \in Paths /\ Len(r) \in Nat /\ Len(s) \in Nat
  BY CleanersAssumption, PrefixProps
<1>7. IsPrefix(r, b)
  BY <1>1, <1>3, <1>4, <1>6, PrefixOfPrefix
<1>8. r = s
  <2>1. CASE Len(r) <= Len(s)
    BY <1>1, <1>5, <1>6, <1>7, <2>1, Comparable DEF Apart
  <2>2. CASE Len(s) <= Len(r)
    BY <1>1, <1>5, <1>6, <1>7, <2>2, Comparable DEF Apart
  <2>. QED
    BY <1>6, <2>1, <2>2
<1>9. Len(a) \in Len(s)..(Len(b) - 1) /\ b[Len(a)] = a[Len(a)]
  BY <1>1, <1>2, <1>3, <1>4, <1>6, <1>8, PrefixProps
<1>. QED
  BY <1>4, <1>5, <1>9

(* A file with a target name on its way lies in an artefact, when nothing  *)
(* is sealed, and in no other way.                                         *)
LEMMA InArtefacts ==
    ASSUME tree \subseteq Paths, Rooted
    PROVE  LET U == {q \in tree \cap File : \E r \in ScanRoots :
                       /\ IsPrefix(r, q) /\ \E n \in Len(r)..(Len(q) - 1) : q[n] \in Targets}
               A == (UNION {Below(p) : p \in Artefacts}) \cap File
           IN  A \subseteq U /\ (tree \cap Sealed = {} => A = U)
<1>1. ASSUME tree \cap Sealed = {},
             NEW q \in tree \cap File, NEW r \in ScanRoots, IsPrefix(r, q),
             NEW k \in Len(r)..(Len(q) - 1), q[k] \in Targets
      PROVE  \E p \in Artefacts : q \in Below(p)
  <2>. DEFINE N == {n \in Len(r)..(Len(q) - 1) : q[n] \in Targets}
  <2>1. q \in Paths /\ r \in Paths /\ Len(q) \in Nat /\ Len(r) \in Nat /\ Len(r) > 0
    BY CleanersAssumption, PrefixProps
  <2>2. PICK n \in N : \A x \in N : n <= x
    <3>1. N \in SUBSET (0..Len(q)) /\ N # {}
      BY <1>1, <2>1
    <3>. HIDE DEF N
    <3>. QED
      BY <2>1, <3>1, Ends
  <2>3. /\ n \in Len(r)..(Len(q) - 1) /\ q[n] \in Targets /\ n \in 1..Len(q) /\ n < Len(q)
        /\ \A m \in Len(r)..(n - 1) : q[m] \notin Targets
    BY <2>1, <2>2
  <2>. HIDE DEF N
  <2>. DEFINE p == SubSeq(q, 1, n)
  <2>4. p \in tree \ File /\ Len(p) = n /\ p \in Paths
    BY <2>3, OnTheWay
  <2>5. IsPrefix(p, q) /\ \A i \in 1..n : p[i] = q[i]
    <3>. HIDE DEF p
    <3>1. p = SubSeq(q, 1, Len(p)) /\ Len(p) <= Len(q)
      BY <2>1, <2>3, <2>4 DEF p
    <3>. QED
      BY <2>1, <2>4, <3>1, PrefixProps
  <2>. HIDE DEF p
  <2>6. IsPrefix(r, p)
    BY <1>1, <2>1, <2>3, <2>4, <2>5, Comparable
  <2>7. FirstAt(p, Len(p))
    BY <2>1, <2>3, <2>4, <2>5, <2>6 DEF FirstAt
  <2>. QED
    BY <1>1, <2>4, <2>5, <2>7, ArtefactsStart DEF Below
<1>2. ASSUME NEW p \in Artefacts, NEW q \in Below(p), q \in File
      PROVE  /\ q \in tree
             /\ \E r \in ScanRoots : /\ IsPrefix(r, q)
                                     /\ \E n \in Len(r)..(Len(q) - 1) : q[n] \in Targets
  <2>1. p \in Paths /\ p \notin File /\ q \in Paths /\ q \in tree /\ IsPrefix(p, q)
    BY ArtefactsStart DEF Below
  <2>2. Len(p) \in Nat /\ Len(q) \in Nat /\ Len(p) > 0 /\ Len(p) < Len(q)
    BY <1>2, <2>1, PrefixProps
  <2>3. PICK r \in ScanRoots : IsPrefix(r, p) /\ Len(p) \in Len(r)..Len(p) /\ p[Len(p)] \in Targets
    BY ArtefactsStart DEF FirstAt
  <2>4. r \in Paths /\ Len(r) \in Nat
    BY CleanersAssumption, PrefixProps
  <2>5. IsPrefix(r, q)
    BY <2>1, <2>2, <2>3, <2>4, PrefixOfPrefix
  <2>6. Len(p) \in Len(r)..(Len(q) - 1) /\ q[Len(p)] = p[Len(p)]
    BY <2>1, <2>2, <2>3, <2>4, PrefixProps
  <2>. QED
    BY <2>1, <2>3, <2>5, <2>6
<1>. QED
  BY <1>1, <1>2 DEF Below

(* Who takes paths away below one, or makes one, leaves none without its   *)
(* directory.                                                              *)
LEMMA FrontIsPrefix ==
    ASSUME NEW q \in Paths, Front(q) # <<>>
    PROVE  Front(q) \in Paths /\ IsPrefix(Front(q), q) /\ Len(Front(q)) < Len(q)
<1>. DEFINE C == UNION {ToSet(r) : r \in Paths}
<1>1. q \in Seq(C) /\ q # <<>> /\ Front(q) \in Paths
  BY CleanersAssumption, NoFileAbove
<1>. HIDE DEF C
<1>2. Len(Front(q)) = Len(q) - 1 /\ Len(q) \in Nat /\ Len(q) > 0
  BY <1>1 DEF Front
<1>3. Front(q) = SubSeq(q, 1, Len(Front(q)))
  BY <1>2 DEF Front
<1>. QED
  BY <1>1, <1>2, <1>3, PrefixProps

LEMMA StillRooted ==
    ASSUME tree \subseteq Paths, Rooted
    PROVE  /\ \A e \in Paths : Gone(e) \/ Part(e) => Rooted'
           /\ Make \/ Drop => Rooted'
<1>1. ASSUME NEW e \in Paths, NEW q \in tree \ Below(e)
      PROVE  Front(q) \in (tree \ Below(e)) \cup {<<>>}
  <2>1. Front(q) \in tree \cup {<<>>} /\ q \in Paths
    BY DEF Rooted
  <2>2. ASSUME Front(q) # <<>>, Front(q) \in Below(e) PROVE FALSE
    BY <2>1, <2>2, FrontIsPrefix, PrefixOfPrefix DEF Below
  <2>. QED
    BY <2>1, <2>2
<1>2. ASSUME NEW e \in Paths, tree' = tree \ Below(e) PROVE Rooted'
  BY <1>1, <1>2 DEF Rooted
<1>3. ASSUME NEW e \in Paths, Part(e) PROVE Rooted'
  <2>1. PICK keep \in SUBSET Below(e) :
            /\ e \in keep /\ \A q \in keep \ {e} : Front(q) \in keep
            /\ tree' = (tree \ Below(e)) \cup keep
    BY <1>3 DEF Part
  <2>2. Front(e) \in tree' \cup {<<>>}
    <3>1. e \in tree /\ Front(e) \in tree \cup {<<>>}
      BY <2>1 DEF Below, Rooted
    <3>2. ASSUME Front(e) # <<>>, Front(e) \in Below(e) PROVE FALSE
      <4>1. Len(Front(e)) < Len(e) /\ Len(e) <= Len(Front(e))
        BY <3>2, FrontIsPrefix, PrefixProps DEF Below
      <4>2. Len(e) \in Nat /\ Len(Front(e)) \in Nat
        BY <3>2, FrontIsPrefix, PrefixProps
      <4>. QED
        BY <4>1, <4>2
    <3>. QED
      BY <2>1, <3>1, <3>2
  <2>3. \A q \in tree' : Front(q) \in tree' \cup {<<>>}
    BY <1>1, <2>1, <2>2
  <2>. QED
    BY <2>3 DEF Rooted
<1>4. ASSUME Make PROVE Rooted'
  BY <1>4 DEF Make, Rooted
<1>5. ASSUME Drop PROVE Rooted'
  BY <1>2, <1>5 DEF Drop
<1>. QED
  BY <1>2, <1>3, <1>4, <1>5 DEF Gone

LEMMA RootedKept == ASSUME TypeOK, Aim, Rooted, [Next]_vars PROVE Rooted'
<1>0. tree \subseteq Paths /\ job \in JobType(job.total)
  BY TypeParts DEF WorldOK
<1>1. ASSUME UNCHANGED tree PROVE Rooted'
  BY <1>1 DEF Rooted
<1>2. CASE Clear
  <2>1. UNCHANGED tree \/ \E e \in job.rest : Gone(e) \/ Part(e)
    BY <1>2 DEF Clear, files
  <2>2. job.rest \subseteq Paths
    BY <1>0 DEF JobType
  <2>. QED
    BY <1>0, <1>1, <2>1, <2>2, StillRooted
<1>3. CASE Remove_
  <2>1. Of \in Paths
    BY <1>3, OfIsPlausible, OfIsOurs, BusyLabels DEF Remove_, At, Plausible, AppDirs
  <2>. QED
    BY <1>0, <1>3, <2>1, StillRooted DEF Remove_
<1>4. CASE World
  <2>1. UNCHANGED tree \/ Make \/ Drop
    BY <1>4 DEF World, Write, Age, world, files
  <2>. QED
    BY <1>0, <1>1, <2>1, StillRooted
<1>5. CASE ~(Clear \/ Remove_ \/ World)
  <2>1. UNCHANGED tree
    BY <1>5 DEF Next, Command, Scan, Confirm, Turn, Audit, Check, Mdfind, Folders, Stat, Unique,
              Verify, Term, Grace, Kill, Mourn, Bootout, Disable, Enable, Die, world, files, vars
  <2>. QED
    BY <1>1, <2>1
<1>. QED
  BY <1>2, <1>3, <1>4, <1>5

LEMMA RootedHolds == Spec => [](CleanInv /\ Rooted)
<1>1. Init => Rooted
  <2>. SUFFICES ASSUME Init PROVE Rooted
    OBVIOUS
  <2>1. PICK c \in Commands : tree \in Trees[c]
    BY DEF Init, Job
  <2>. QED
    BY <2>1, CleanersAssumption DEF Rooted
<1>2. CleanInv /\ Rooted /\ [Next]_vars => Rooted'
  BY RootedKept DEF CleanInv
<1>. QED
  BY <1>1, <1>2, CleanInvHolds, PTL DEF Spec

(* Only a scan asks, and it announces the sum over what it plans.          *)
LEMMA Announced ==
    ASSUME CleanInv, Next, At("start"), At("ask")'
    PROVE  /\ job.cmd \in Commands /\ job'.todo = Plan
           /\ job'.total = IF job.cmd \in {"caches", "dev", "apps"} THEN MapThenSumSet(SizeOf, Plan)
                           ELSE 0
<1>1. job \in JobType(job.total) /\ job.at = "start"
  BY TypeParts DEF CleanInv, At
<1>2. Scan
  <2>1. ~World
    BY <1>1 DEF World, At, CtrlC, JobType
  <2>2. ~Die
    BY <1>1 DEF Die
  <2>. QED
    BY <1>1, <2>1, <2>2
       DEF Next, Command, Confirm, Turn, Clear, Remove_, Audit, Check, Mdfind, Folders, Stat, Unique,
           Verify, Term, Grace, Kill, Mourn, Bootout, Disable, Enable, At
<1>3. job'.at = "ask"
  BY DEF At
<1>. QED
  BY <1>1, <1>2, <1>3 DEF Scan, Goto, JobType

LEMMA UnitsOfFiles == \A A, B : A \cap File = B \cap File => Units(A) = Units(B)
BY DEF Units

(* What is counted is of the union, and when nothing is in the way all of  *)
(* it.                                                                     *)
LEMMA CountOfUnion ==
    ASSUME NEW W \in SUBSET Paths, Union \in SUBSET Paths,
           job'.total = Cardinality(Units(W)), W \cap File \subseteq Union,
           Simple => Units(Union) \subseteq Units(W)
    PROVE  job'.total <= Bytes(Union) /\ (Simple => job'.total = Bytes(Union))
<1>1. Bytes(Union) = Cardinality(Units(Union)) /\ IsFiniteSet(Units(Union))
  BY BytesAre, UnitsProps
<1>2. Units(W) \subseteq Units(Union)
  BY DEF Units
<1>3. Cardinality(Units(W)) <= Cardinality(Units(Union))
  BY <1>1, <1>2, FS_Subset
<1>4. Simple => Units(W) = Units(Union)
  BY <1>2
<1>. QED
  BY <1>1, <1>3, <1>4

LEMMA CountedAll ==
    ASSUME tree \subseteq Paths, Simple, NEW p
    PROVE  Counted(p) \cap File = Below(p) \cap File /\ Whole(p)
<1>1. Below(p) \cap Sealed = {} /\ Below(p) \subseteq tree
  BY DEF Simple, Below
<1>2. Whole(p) /\ Reached(p) = Below(p)
  BY <1>1 DEF Whole, Reached
<1>3. ASSUME job.cmd = "apps" PROVE OneName((Reached(p) \cap File) \ Sealed) = Below(p) \cap File
  <2>. DEFINE Q == Below(p) \cap File
  <2>1. (Reached(p) \cap File) \ Sealed = Q
    BY <1>1, <1>2
  <2>2. \A x, y \in Q : Inode[x] = Inode[y] => x = y
    BY <1>1, <1>3 DEF Simple
  <2>. HIDE DEF Q
  <2>3. OneName(Q) = Q
    BY <2>2, OneNameProps
  <2>. QED
    BY <2>1, <2>3 DEF Q
<1>. QED
  BY <1>2, <1>3 DEF Counted

LEMMA CachesCounted ==
    ASSUME CleanInv, Rooted, job.cmd = "caches"
    PROVE  LET W == UNION {Counted(p) : p \in Filled}
           IN  W \cap File \subseteq Union /\ (Simple => Units(Union) \subseteq Units(W))
<1>0. tree \subseteq Paths
  BY TypeParts DEF CleanInv, WorldOK
<1>1. Union = {q \in tree \cap File : \E c \in CacheDirs \ ReportOnly : IsStrictPrefix(c, q)}
  BY DEF Union
<1>2. ASSUME NEW p \in Filled, NEW q \in Counted(p) \cap File PROVE q \in Union
  <2>1. q \in Below(p) \cap File
    BY <1>0, CountedProps
  <2>. QED
    BY <1>1, <2>1 DEF Filled, IsDir, Below, IsStrictPrefix
<1>3. ASSUME Simple, NEW q \in Union, NEW i \in 1..Size[q]
      PROVE  \E p \in Filled : q \in Counted(p)
  <2>1. PICK c \in CacheDirs \ ReportOnly : IsPrefix(c, q) /\ c # q
    BY <1>1 DEF IsStrictPrefix
  <2>2. q \in tree \cap File /\ q \in Paths /\ c \in Paths
    BY <1>0, <1>1, CleanersAssumption
  <2>3. /\ Len(c) \in Nat /\ Len(q) \in Nat /\ Len(c) > 0 /\ Len(c) <= Len(q)
        /\ Len(c) # Len(q) /\ c = SubSeq(q, 1, Len(c))
    BY <2>1, <2>2, PrefixProps
  <2>4. Len(c) \in 1..Len(q) /\ Len(c) < Len(q)
    BY <2>3
  <2>5. c \in tree \ File
    BY <1>0, <2>2, <2>3, <2>4, OnTheWay
  <2>6. q \in Below(c) /\ Below(c) \in SUBSET Paths
    BY <1>0, <2>1, <2>2 DEF Below
  <2>7. <<q, i>> \in Units(Below(c))
    BY <2>2, <2>6 DEF Units
  <2>8. Cardinality(Units(Below(c))) # 0 /\ Cardinality(Units(Below(c))) \in Nat
    BY <2>6, <2>7, UnitsProps, FS_EmptySet
  <2>9. Whole(c) /\ q \in Counted(c)
    BY <1>0, <1>3, <2>2, <2>6, CountedAll
  <2>10. DirSize(c) > 0
    BY <2>6, <2>8, <2>9, BytesAre DEF DirSize
  <2>. QED
    BY <2>1, <2>5, <2>9, <2>10 DEF Filled, IsDir
<1>. DEFINE W == UNION {Counted(p) : p \in Filled}
<1>4. W \cap File \subseteq Union
  BY <1>2
<1>5. ASSUME Simple PROVE Units(Union) \subseteq Units(W)
  <2>1. \A q \in Union : q \in File /\ \A i \in 1..Size[q] : q \in W
    BY <1>1, <1>3, <1>5
  <2>2. \A Q, u : u \in Units(Q) <=> \E q \in Q \cap File : \E i \in 1..Size[q] : u = <<q, i>>
    BY DEF Units
  <2>. HIDE DEF W
  <2>. QED
    BY <2>1, <2>2
<1>. QED
  BY <1>4, <1>5

(* Of a set of things that the union is made of. *)
LEMMA PartsCounted ==
    ASSUME tree \subseteq Paths, NEW P,
           (UNION {Below(p) : p \in P}) \cap File \subseteq Union,
           Simple => Union \subseteq UNION {Below(p) : p \in P}
    PROVE  LET W == UNION {Counted(p) : p \in P}
           IN  W \cap File \subseteq Union /\ (Simple => Units(Union) \subseteq Units(W))
<1>1. (UNION {Counted(p) : p \in P}) \cap File \subseteq Union
  BY CountedProps
<1>2. ASSUME Simple, NEW q \in Union, q \in File PROVE q \in UNION {Counted(p) : p \in P}
  BY <1>2, CountedAll
<1>. QED
  BY <1>1, <1>2 DEF Units

LEMMA TotalCounts ==
    ASSUME CleanInv, Rooted, Next, At("start"), At("ask")', OrdinaryMachine
    PROVE  job'.total <= Bytes(Union) /\ (Simple => job'.total = Bytes(Union))
<1>. DEFINE W(P) == UNION {Counted(p) : p \in P}
<1>0. tree \subseteq Paths /\ job.cmd \in Commands /\ Union \in SUBSET Paths
  BY Announced, TypeParts DEF CleanInv, WorldOK, Union
<1>1. \A P : W(P) \in SUBSET Paths
  BY <1>0, CountedProps
<1>2. CASE job.cmd = "caches"
  <2>1. Plan = Filled /\ Filled \in SUBSET Paths /\ Apart(Filled)
    BY <1>0, <1>2 DEF Plan, Filled, IsDir, Apart, OrdinaryMachine
  <2>2. job'.total = Cardinality(Units(W(Filled)))
    BY <1>0, <1>2, <2>1, Announced, ApartBelow, SumOfParts
  <2>3. W(Filled) \cap File \subseteq Union /\ (Simple => Units(Union) \subseteq Units(W(Filled)))
    BY <1>2, CachesCounted
  <2>. HIDE DEF W
  <2>. QED
    BY <1>0, <1>1, <2>2, <2>3, CountOfUnion
<1>3. CASE job.cmd = "dev"
  <2>1. Plan = Artefacts /\ Artefacts \in SUBSET Paths
    BY <1>0, <1>3, ArtefactsStart DEF Plan
  <2>2. job'.total = Cardinality(Units(W(Artefacts)))
    BY <1>0, <1>3, <2>1, Announced, ArtefactsApart, SumOfParts DEF OrdinaryMachine
  <2>3. Union = {q \in tree \cap File : \E r \in ScanRoots :
                   /\ IsPrefix(r, q) /\ \E n \in Len(r)..(Len(q) - 1) : q[n] \in Targets}
    BY <1>3 DEF Union
  <2>4. /\ (UNION {Below(p) : p \in Artefacts}) \cap File \subseteq Union
        /\ Simple => Union \subseteq UNION {Below(p) : p \in Artefacts}
    BY <1>0, <2>3, InArtefacts DEF Simple
  <2>5. W(Artefacts) \cap File \subseteq Union /\ (Simple => Units(Union) \subseteq Units(W(Artefacts)))
    BY <1>0, <2>4, PartsCounted
  <2>. HIDE DEF W
  <2>. QED
    BY <1>0, <1>1, <2>2, <2>5, CountOfUnion
<1>4. CASE job.cmd = "apps"
  <2>1. Plan = Deserted /\ Deserted \in SUBSET Paths /\ Apart(Deserted) /\ job'.todo = Deserted
    BY <1>0, <1>4, Announced DEF Plan, Deserted, Apart, OrdinaryMachine
  <2>2. job'.total = Cardinality(Units(W(Deserted)))
    BY <1>0, <1>4, <2>1, Announced, ApartBelow, SumOfParts
  <2>3. Union = {q \in tree \cap File : \E d \in Deserted : IsPrefix(d, q)}
    BY <1>4, <2>1 DEF Union
  <2>4. /\ (UNION {Below(p) : p \in Deserted}) \cap File \subseteq Union
        /\ Simple => Union \subseteq UNION {Below(p) : p \in Deserted}
    BY <2>3 DEF Below
  <2>5. W(Deserted) \cap File \subseteq Union /\ (Simple => Units(Union) \subseteq Units(W(Deserted)))
    BY <1>0, <2>4, PartsCounted
  <2>. HIDE DEF W
  <2>. QED
    BY <1>0, <1>1, <2>2, <2>5, CountOfUnion
<1>5. CASE job.cmd \notin {"caches", "dev", "apps"}
  <2>1. job'.total = 0
    BY <1>5, Announced
  <2>2. Union = {}
    BY <1>5 DEF Union
  <2>3. Units({}) = {} /\ Cardinality({}) = 0
    BY FS_EmptySet DEF Units
  <2>4. Bytes(Union) = 0
    BY <2>2, <2>3, BytesAre
  <2>. QED
    BY <2>1, <2>4
<1>. QED
  BY <1>2, <1>3, <1>4, <1>5

(* On every machine, the total that `caches`, `dev` and `apps clean` ask   *)
(* about is at most the size of the union of what they list, and equals it *)
(* when every directory can be read and, for apps, no file has two names:  *)
(* the sum counts no file twice and forgets none, provided that no cache   *)
(* target, scan root or data directory lies inside another (walk.go:11-34; *)
(* dev.go:43-75; orphanapps.go:187-218; cli/dev_cmd.go:49-51,              *)
(* caches_cmd.go:106-112, apps_cmd.go:60-66).                              *)
THEOREM PlanTrue == OrdinaryMachine => (Spec => PlanIsTrue)
<1>. SUFFICES ASSUME OrdinaryMachine PROVE Spec => PlanIsTrue
  OBVIOUS
<1>1. CleanInv /\ Rooted /\ [Next]_vars => [TotalIsUnion]_vars
  BY TotalCounts DEF TotalIsUnion
<1>. QED
  BY <1>1, RootedHolds, PTL DEF Spec, PlanIsTrue
=============================================================================
