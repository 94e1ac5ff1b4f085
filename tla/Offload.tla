------------------------------ MODULE Offload ------------------------------
(***************************************************************************)
(* Relocating bulky assets to an external volume: Module.Apply of          *)
(* internal/modules/offload/offload.go, the deferred queue engine of       *)
(* pending.go, and the CLI verbs `offload apply', `run-pending' and        *)
(* `cancel' of internal/cli/offload_cmd.go, at the grain of one file       *)
(* system or SQL operation per step.                                       *)
(*                                                                         *)
(* An asset ("target") is a directory.  While it is moved three places are *)
(* involved: the target path itself (src), target.noo-noo-bak (bak) and    *)
(* <dest_root>/<asset id> on the pinned volume (dst).  The applications    *)
(* that own the assets, the volumes and the user are the environment: they *)
(* act between any two steps.  A process may be killed between any two     *)
(* steps; files and queue rows survive it, its local state does not.       *)
(*                                                                         *)
(* Content is a set of Items, each standing for one write by the owning    *)
(* application.  Items in Silent are same-size edits of an existing file:  *)
(* the copy verification compares only the number of files and their       *)
(* logical bytes, so it cannot see them.                                   *)
(***************************************************************************)
EXTENDS RelocQueue, FiniteSets

CONSTANTS
    Actors,     \* processes that relocate: the daemon, CLI invocations
    Triggers,   \* Triggers[a]: what actor a may start (see Start*)
    Targets,    \* the relocate-class playbook assets
    Gated,      \* those with a stop-gate or a path-gate
    Items,      \* writes an application may make
    Silent,     \* the writes that change neither file count nor total bytes
    Pins,       \* destination pins: dest_root + dest_volume_uuid
    MaxRows     \* bound: rows ever inserted in the queue

ASSUME OffloadAssumption ==
    /\ Triggers \in [Actors -> SUBSET {"daily", "manual", "apply"}]
    /\ Gated \subseteq Targets
    /\ Silent \subseteq Items
    /\ Targets # {} /\ Pins # {}
    /\ MaxRows \in Nat

VARIABLES
    src, bak,   \* [Targets -> Node]: the target path and its backup
    dst,        \* [Targets -> [Pins -> Node]]: the relocated copies
    app,        \* targets whose owner is running / holds files open
    mounted,    \* pins whose volume is mounted and writable
    conf,       \* the pin config.toml names now
    rows,       \* relocation_queue
    pinned,     \* per process: the pin it read from config.toml
    pc, job,    \* per actor: next step, and local variables
    written,    \* history: every item ever written to the target
    late,       \* history: those written after an apply passed its gate
    behind      \* history: those a link led to that an apply has replaced

fs   == <<src, bak, dst>>
env  == <<app, mounted, conf>>
hist == <<written, late, behind>>
vars == <<src, bak, dst, app, mounted, conf, rows, pinned, pc, job,
          written, late, behind>>

-----------------------------------------------------------------------------
(* File system nodes. *)

AnyPin == CHOOSE p \in Pins : TRUE

Missing == [kind |-> "none", data |-> {}, to |-> AnyPin]
Dir(S)  == [kind |-> "dir", data |-> S, to |-> AnyPin]
Link(p) == [kind |-> "link", data |-> {}, to |-> p]
Node    == {Missing} \cup {Dir(S) : S \in SUBSET Items}
                     \cup {Link(p) : p \in Pins}

(* What is found through node n of target t, its volume being there. *)
Via(t, n) == IF n.kind = "link" THEN dst[t][n.to].data ELSE n.data
Through(t) == Via(t, src[t])

(* countAndBytes: the walk does not follow links and cannot see Silent. *)
Uncounted(n) == {}                          \* mutant: no parity check
Counted(n)   == n.data \ Silent

-----------------------------------------------------------------------------
(* Actors.  A job is one run: `todo' are the queue ids still to be         *)
(* visited, `row' the current one (0 for a direct `offload apply'),        *)
(* `attempted' the counter charged against the budget, and `invoked' a     *)
(* history of the rows Apply was called for.                               *)

Idle == [trigger |-> "apply", todo |-> {}, row |-> 0,
         target |-> CHOOSE t \in Targets : TRUE,
         attempted |-> 0, invoked |-> {}]

Job == [trigger: {"daily", "manual", "apply"}, todo: SUBSET (Nat \ {0}),
        row: Nat, target: Targets, attempted: Nat, invoked: SUBSET Nat]

(* Program points from the moment the copy may start to the end of Apply. *)
Moving == {"copy", "copying", "verify", "swap", "link", "check", "dropbak",
           "restore", "rollback", "dropdest"}

Labels == {"idle", "gates", "mark", "guards", "offer", "insert",
           "failed", "done"} \cup Moving

InFlight(t) == \E a \in Actors : pc[a] \in Moving /\ job[a].target = t

Goto(a, l) == pc' = [pc EXCEPT ![a] = l]

(* The loop of RunPending: visit the oldest remaining id, or end. *)
Visited(S, id) == S \ {id}

NextEntry(a, j) ==
    \/ /\ j.todo = {}
       /\ Goto(a, "idle")
       /\ job' = [job EXCEPT ![a] = Idle]
    \/ \E id \in j.todo :
       /\ \A other \in j.todo : id <= other
       /\ Goto(a, "gates")
       /\ job' = [job EXCEPT ![a] = [j EXCEPT !.row = id, !.todo = Visited(@, id),
                                             !.target = rows[id].target]]

(* Two runs never share a process; the daemon passes budget 1, the CLI -1. *)
SpentTwice(j)  == j.trigger = "daily" /\ j.attempted > 1   \* mutant: off by one
BudgetSpent(j) == j.trigger = "daily" /\ j.attempted >= 1

-----------------------------------------------------------------------------
Init ==
    /\ src \in [Targets -> {Dir({}), Missing}]
    /\ bak = [t \in Targets |-> Missing]
    /\ dst = [t \in Targets |-> [p \in Pins |-> Missing]]
    /\ app \in SUBSET Targets
    /\ mounted = Pins
    /\ conf \in Pins
    /\ rows = <<>>
    /\ pinned = [a \in Actors |-> conf]
    /\ pc = [a \in Actors |-> "idle"]
    /\ job = [a \in Actors |-> Idle]
    /\ written = [t \in Targets |-> {}]
    /\ late = [t \in Targets |-> {}]
    /\ behind = [t \in Targets |-> {}]

-----------------------------------------------------------------------------
(* The environment. *)

AppToggle(t) ==
    /\ app' = IF t \in app THEN app \ {t} ELSE app \cup {t}
    /\ UNCHANGED <<fs, mounted, conf, rows, pinned, pc, job, hist>>

(* The owner writes to its directory; where nothing is there it makes it.  *)
(* Through a link the write lands on the volume, or fails without it.      *)
AppWrite(t, i) ==
    /\ t \in app /\ i \notin written[t]
    /\ \/ /\ src[t].kind = "dir"
          /\ src' = [src EXCEPT ![t] = Dir(@.data \cup {i})]
          /\ UNCHANGED dst
       \/ /\ src[t].kind = "none" /\ i \notin Silent
          /\ src' = [src EXCEPT ![t] = Dir({i})]
          /\ UNCHANGED dst
       \/ /\ src[t].kind = "link" /\ src[t].to \in mounted
          /\ dst[t][src[t].to].kind = "dir"
          /\ dst' = [dst EXCEPT ![t][src[t].to] = Dir(@.data \cup {i})]
          /\ UNCHANGED src
    /\ written' = [written EXCEPT ![t] = @ \cup {i}]
    /\ late' = IF InFlight(t) THEN [late EXCEPT ![t] = @ \cup {i}] ELSE late
    /\ UNCHANGED <<bak, env, rows, pinned, pc, job, behind>>

VolumeToggle(p) ==
    /\ mounted' = IF p \in mounted THEN mounted \ {p} ELSE mounted \cup {p}
    /\ UNCHANGED <<fs, app, conf, rows, pinned, pc, job, hist>>

EditConfig(p) ==
    /\ conf # p /\ conf' = p
    /\ UNCHANGED <<fs, app, mounted, rows, pinned, pc, job, hist>>

(* `noo-noo offload cancel <id>': one guarded UPDATE, in its own process.  *)
Cancel(id) ==
    /\ id \in ListPending(rows)
    /\ rows' = Resolve(rows, id, "cancelled")
    /\ UNCHANGED <<fs, env, pinned, pc, job, hist>>

(* The process is killed, or the run's context is cancelled between two    *)
(* rows: the local state is gone, files and rows stay as they are.  A      *)
(* restarted daemon reads the configuration again.                         *)
Crash(a) ==
    /\ pc[a] # "idle" \/ pinned[a] # conf
    /\ Goto(a, "idle") /\ job' = [job EXCEPT ![a] = Idle]
    /\ pinned' = [pinned EXCEPT ![a] = conf]
    /\ UNCHANGED <<fs, env, rows, hist>>

-----------------------------------------------------------------------------
(* Starting a run.  The CLI reads the configuration as it starts, the      *)
(* daemon has read it when it was launched.                                *)

StartApply(a, t) ==
    /\ pc[a] = "idle" /\ "apply" \in Triggers[a]
    /\ pinned' = [pinned EXCEPT ![a] = conf]
    /\ Goto(a, "guards")
    /\ job' = [job EXCEPT ![a] = [Idle EXCEPT !.target = t]]
    /\ UNCHANGED <<fs, env, rows, hist>>

StartPending(a, trigger) ==
    /\ pc[a] = "idle" /\ trigger \in Triggers[a] \ {"apply"}
    /\ ListPending(rows) # {}
    /\ pinned' = IF trigger = "manual"
                 THEN [pinned EXCEPT ![a] = conf] ELSE pinned
    /\ NextEntry(a, [Idle EXCEPT !.trigger = trigger,
                                 !.todo = ListPending(rows)])
    /\ UNCHANGED <<fs, env, rows, hist>>

-----------------------------------------------------------------------------
(* The Lstat of prepareDest and of gate 5. *)
DestTaken(t, p) == TRUE                     \* mutant: no collision check
DestFree(t, p)  == dst[t][p] = Missing

(* recheckOne: the fresh gates 0 to 5, the budget, the attempt mark.       *)

AnyPinDoes(j, p)   == TRUE                  \* mutant: gate 0 dropped
PinUnchanged(j, p) == rows[j.row].pin = p

GatesClear(j, p) ==
    LET t == j.target IN
    /\ PinUnchanged(j, p)
    /\ src[t].kind = "dir"
    /\ ~(t \in Gated /\ t \in app)
    /\ p \in mounted
    /\ DestFree(t, p)

(* A gate refuses (a probe that errs counts as a refusal): row 'blocked'.  *)
GatesBlock(a) ==
    /\ pc[a] = "gates"
    /\ rows' = Resolve(rows, job[a].row, "blocked")
    /\ NextEntry(a, job[a])
    /\ UNCHANGED <<fs, env, pinned, hist>>

GatesPass(a) ==
    /\ pc[a] = "gates" /\ GatesClear(job[a], pinned[a])
    /\ IF BudgetSpent(job[a])
       THEN NextEntry(a, job[a])
       ELSE Goto(a, "mark") /\ UNCHANGED job
    /\ UNCHANGED <<fs, env, rows, pinned, hist>>

(* The counter is charged even when the row raced to a terminal status.    *)
Mark(a) ==
    LET j == [job[a] EXCEPT !.attempted = @ + 1] IN
    /\ pc[a] = "mark"
    /\ rows' = MarkAttempt(rows, j.row)
    /\ IF IsPending(rows, j.row)
       THEN /\ Goto(a, "guards")
            /\ job' = [job EXCEPT ![a] = [j EXCEPT !.invoked = @ \cup {j.row}]]
       ELSE NextEntry(a, j)
    /\ UNCHANGED <<fs, env, pinned, hist>>

-----------------------------------------------------------------------------
(* Apply, up to the copy: volume guard, stop-gate, prepareDest.            *)

GuardsPass(a) ==
    LET t == job[a].target  p == pinned[a] IN
    /\ pc[a] = "guards"
    /\ p \in mounted
    /\ ~(t \in Gated /\ t \in app)
    /\ DestFree(t, p)
    /\ Goto(a, "copy")
    /\ UNCHANGED <<fs, env, rows, pinned, job, hist>>

(* Any other outcome of the guards; only ErrStopGate can be deferred: the   *)
(* gate found the owner live, or its probe could not exclude it.           *)
GuardsRefuse(a) ==
    LET t == job[a].target IN
    /\ pc[a] = "guards"
    /\ \/ Goto(a, "failed")
       \/ /\ job[a].row = 0 /\ pinned[a] \in mounted
          /\ t \in Gated
          /\ Goto(a, "offer")
    /\ UNCHANGED <<fs, env, rows, pinned, job, hist>>

(* offloadOfferQueue and EnqueueRelocation: the user declines, or agrees   *)
(* and the dedupe SELECT runs; the INSERT is a statement of its own.       *)
Offer(a) ==
    /\ pc[a] = "offer"
    /\ \/ Goto(a, "idle") /\ job' = [job EXCEPT ![a] = Idle]
       \/ /\ PendingFor(rows, job[a].target) = {}
          /\ Len(rows) < MaxRows
          /\ Goto(a, "insert") /\ UNCHANGED job
    /\ UNCHANGED <<fs, env, rows, pinned, hist>>

Insert(a) ==
    /\ pc[a] = "insert"
    /\ rows' = InsertRow(rows, job[a].target, pinned[a])
    /\ Goto(a, "idle") /\ job' = [job EXCEPT ![a] = Idle]
    /\ UNCHANGED <<fs, env, pinned, hist>>

-----------------------------------------------------------------------------
(* copyOrClean.  ditto (external) merges into what it finds at dst.  It    *)
(* may leave files out without saying so, which is why Apply verifies; it  *)
(* reads every file it copies as it is at that moment.  An asset that is   *)
(* moved already is a link, which Scan follows (os.Stat) and ditto too:    *)
(* the tree the link leads to is copied, or some of it.                    *)

CopyStart(a) ==
    LET t == job[a].target  p == pinned[a] IN
    /\ pc[a] = "copy"
    /\ IF p \in mounted /\ src[t].kind # "none"
       THEN /\ dst' = [dst EXCEPT ![t][p] = Dir(@.data)]
            /\ Goto(a, "copying")
       ELSE /\ Goto(a, "dropdest") /\ UNCHANGED dst
    /\ UNCHANGED <<src, bak, env, rows, pinned, job, hist>>

Copied(t, p, S) == dst' = [dst EXCEPT ![t][p] = Dir(@.data \cup S)]

CopyEnd(a) ==
    LET t == job[a].target  p == pinned[a] IN
    /\ pc[a] = "copying" /\ p \in mounted
    /\ dst[t][p].kind = "dir" /\ src[t].kind # "none"
    /\ \E S \in SUBSET Through(t) :
          /\ src[t].kind = "dir" => Through(t) \cap Silent \subseteq S
          /\ Copied(t, p, S)
    /\ Goto(a, "verify")
    /\ UNCHANGED <<src, bak, env, rows, pinned, job, hist>>

(* ditto fails (I/O error, volume full or gone, cancelled) part way.       *)
CopyFail(a) ==
    LET t == job[a].target  p == pinned[a] IN
    /\ pc[a] = "copying"
    /\ IF p \in mounted /\ dst[t][p].kind = "dir"
       THEN \E S \in SUBSET Through(t) : Copied(t, p, S)
       ELSE UNCHANGED dst
    /\ Goto(a, "dropdest")
    /\ UNCHANGED <<src, bak, env, rows, pinned, job, hist>>

(* The two walks are compared; either may fail on a file that comes or     *)
(* goes under it.  The walk of a link does not follow it: its asset counts *)
(* as no files of no bytes, and passes for a copy that holds none.         *)
Verify(a) ==
    LET t == job[a].target  p == pinned[a] IN
    /\ pc[a] = "verify"
    /\ \/ /\ p \in mounted /\ dst[t][p].kind = "dir" /\ src[t].kind # "none"
          /\ Counted(src[t]) = Counted(dst[t][p])
          /\ Goto(a, "swap")
       \/ Goto(a, "dropdest")
    /\ UNCHANGED <<fs, env, rows, pinned, job, hist>>

-----------------------------------------------------------------------------
(* The swap: rename to the backup, symlink, verify the link, drop the      *)
(* backup.  Each of these calls may fail for a reason of its own.          *)

Swap(a) ==
    LET t == job[a].target IN
    /\ pc[a] = "swap"
    /\ \/ /\ bak[t] = Missing /\ src[t] # Missing
          /\ bak' = [bak EXCEPT ![t] = src[t]]
          /\ src' = [src EXCEPT ![t] = Missing]
          /\ Goto(a, "link")
       \/ /\ Goto(a, "dropdest")    \* leftover backup, or rename fails
          /\ UNCHANGED <<src, bak>>
    /\ UNCHANGED <<dst, env, rows, pinned, job, hist>>

\* mutant: the error of Symlink is not looked at
MakeLinkUnchecked(a) ==
    LET t == job[a].target IN
    /\ pc[a] = "link"
    /\ \/ /\ src[t] = Missing
          /\ src' = [src EXCEPT ![t] = Link(pinned[a])]
       \/ UNCHANGED src
    /\ Goto(a, "dropbak")
    /\ UNCHANGED <<bak, dst, env, rows, pinned, job, hist>>

MakeLink(a) ==
    LET t == job[a].target IN
    /\ pc[a] = "link"
    /\ \/ /\ src[t] = Missing
          /\ src' = [src EXCEPT ![t] = Link(pinned[a])]
          /\ Goto(a, "check")
       \/ Goto(a, "restore") /\ UNCHANGED src
    /\ UNCHANGED <<bak, dst, env, rows, pinned, job, hist>>

CheckLink(a) ==
    LET t == job[a].target  p == pinned[a] IN
    /\ pc[a] = "check"
    /\ \/ /\ src[t] = Link(p) /\ p \in mounted /\ dst[t][p].kind = "dir"
          /\ Goto(a, "dropbak")
       \/ Goto(a, "restore")
    /\ UNCHANGED <<fs, env, rows, pinned, job, hist>>

DropBak(a) ==
    LET t == job[a].target IN
    /\ pc[a] = "dropbak"
    /\ \/ /\ bak' = [bak EXCEPT ![t] = Missing]
          /\ behind' = [behind EXCEPT ![t] = @ \cup
                          (IF bak[t].kind = "link" THEN Via(t, bak[t]) ELSE {})]
          /\ Goto(a, "done")
       \/ /\ bak[t].kind = "dir"    \* RemoveAll fails part way
          /\ \E S \in SUBSET bak[t].data : bak' = [bak EXCEPT ![t] = Dir(S)]
          /\ Goto(a, "failed") /\ UNCHANGED behind
    /\ UNCHANGED <<src, dst, env, rows, pinned, job, written, late>>

-----------------------------------------------------------------------------
(* restore: remove a half-made link, rename the backup home, drop dest.    *)

Restore(a) ==
    LET t == job[a].target IN
    /\ pc[a] = "restore"
    /\ src' = IF src[t].data = {}    \* a link, or an empty directory
              THEN [src EXCEPT ![t] = Missing] ELSE src
    /\ Goto(a, "rollback")
    /\ UNCHANGED <<bak, dst, env, rows, pinned, job, hist>>

Rollback(a) ==
    LET t == job[a].target IN
    /\ pc[a] = "rollback"
    /\ \/ /\ src[t] = Missing /\ bak[t] # Missing
          /\ src' = [src EXCEPT ![t] = bak[t]]
          /\ bak' = [bak EXCEPT ![t] = Missing]
          /\ Goto(a, "dropdest")
       \/ Goto(a, "failed") /\ UNCHANGED <<src, bak>>
    /\ UNCHANGED <<dst, env, rows, pinned, job, hist>>

(* RemoveAll(dest), its error ignored: all, part or nothing goes.          *)
DropDest(a) ==
    LET t == job[a].target  p == pinned[a] IN
    /\ pc[a] = "dropdest"
    /\ \/ p \in mounted /\ dst' = [dst EXCEPT ![t][p] = Missing]
       \/ /\ p \in mounted /\ dst[t][p].kind = "dir"
          /\ \E S \in SUBSET dst[t][p].data : dst' = [dst EXCEPT ![t][p] = Dir(S)]
       \/ p \notin mounted /\ UNCHANGED dst
    /\ Goto(a, "failed")
    /\ UNCHANGED <<src, bak, env, rows, pinned, job, hist>>

-----------------------------------------------------------------------------
(* Phase 2: patch the outcome of the row, if there is one, and go on.      *)

Finish(a, l, status) ==
    /\ pc[a] = l
    /\ rows' = Resolve(rows, job[a].row, status)
    /\ NextEntry(a, job[a])
    /\ UNCHANGED <<fs, env, pinned, hist>>

Failed(a) == Finish(a, "failed", "blocked")
Done(a)   == Finish(a, "done", "applied")

-----------------------------------------------------------------------------
Environment ==
    \/ \E t \in Targets : AppToggle(t)
    \/ \E t \in Targets, i \in Items : AppWrite(t, i)
    \/ \E p \in Pins : VolumeToggle(p) \/ EditConfig(p)
    \/ \E id \in DOMAIN rows : Cancel(id)
    \/ \E a \in Actors : Crash(a)

Start(a) ==
    \/ \E t \in Targets : StartApply(a, t)
    \/ \E trigger \in {"daily", "manual"} : StartPending(a, trigger)

Step(a) ==
    \/ GatesBlock(a) \/ GatesPass(a) \/ Mark(a)
    \/ GuardsPass(a) \/ GuardsRefuse(a) \/ Offer(a) \/ Insert(a)
    \/ CopyStart(a) \/ CopyEnd(a) \/ CopyFail(a) \/ Verify(a)
    \/ Swap(a) \/ MakeLink(a) \/ CheckLink(a) \/ DropBak(a)
    \/ Restore(a) \/ Rollback(a) \/ DropDest(a)
    \/ Failed(a) \/ Done(a)

Next == Environment \/ \E a \in Actors : Start(a) \/ Step(a)

Spec == Init /\ [][Next]_vars

-----------------------------------------------------------------------------
(* The state has the shape of the tables, files and local variables.       *)
TypeOK ==
    /\ src \in [Targets -> Node] /\ bak \in [Targets -> Node]
    /\ dst \in [Targets -> [Pins -> Node]]
    /\ app \subseteq Targets /\ mounted \subseteq Pins /\ conf \in Pins
    /\ rows \in Seq(RelocRow(Targets, Pins))
    /\ pinned \in [Actors -> Pins]
    /\ pc \in [Actors -> Labels] /\ job \in [Actors -> Job]
    /\ written \in [Targets -> SUBSET Items]
    /\ late \in [Targets -> SUBSET Items]
    /\ behind \in [Targets -> SUBSET Items]

(* Whatever the application had written before an apply passed its gate is *)
(* reached through the target path or through the backup next to it, at    *)
(* every moment: while the swap is under way, after a failed or killed     *)
(* apply, with the volume coming and going (Apply, offload.go:308-311).    *)
(* What a replaced link led to is not reached so (see CopyIsProven), but   *)
(* it stays in the copy it was moved to.                                   *)
SettledDataKept ==
    \A t \in Targets :
        /\ written[t] \ (late[t] \cup behind[t])
              \subseteq Via(t, src[t]) \cup Via(t, bak[t])
        /\ behind[t] \subseteq UNION {dst[t][p].data : p \in Pins}

(* When Apply reports success the path is a link to the pinned volume, no  *)
(* backup is left, and the copy there holds all that no former copy holds  *)
(* (offload.go:380-391).                                                   *)
DoneMeansRelocated ==
    \A a \in Actors : pc[a] = "done" =>
        LET t == job[a].target IN
        /\ src[t] = Link(pinned[a]) /\ bak[t] = Missing
        /\ written[t] \ (late[t] \cup behind[t]) \subseteq dst[t][pinned[a]].data

(* Bytes move for a queue row only towards the destination its user        *)
(* consented to, and only after the attempt was recorded, whatever was     *)
(* edited or cancelled meanwhile (pending.go:228-233, 173-176).            *)
MovesAreConsented ==
    \A a \in Actors : pc[a] \in Moving /\ job[a].row # 0 =>
        /\ rows[job[a].row].pin = pinned[a]
        /\ rows[job[a].row].target = job[a].target
        /\ rows[job[a].row].tried

(* A daily run calls Apply for at most one row, failed applies included    *)
(* (budget 1, tick.go:268-279).                                            *)
OneApplyPerDailyRun ==
    \A a \in Actors : job[a].trigger = "daily" =>
        \A x, y \in job[a].invoked : x = y

(* An applied or cancelled row never changes again, and no run that listed *)
(* it while it was pending starts to move it (reloc_queue.go:129-189).     *)
ClosedRowsStayClosed ==
    [][\A id \in DOMAIN rows : rows[id].status \in RelocTerminal =>
          /\ rows'[id] = rows[id]
          /\ \A a \in Actors : id \in job'[a].invoked => id \in job[a].invoked]_vars

-----------------------------------------------------------------------------
(* What the documentation says and the code does not do (README,           *)
(* section 5); the run `lost` finds the first violated.                    *)

(* "nothing is deleted until the copy is proven" (offload_cmd.go:127).     *)
NothingWrittenIsLost ==
    \A t \in Targets :
        written[t] \subseteq Via(t, src[t]) \cup Via(t, bak[t])
                             \cup UNION {dst[t][p].data : p \in Pins}

(* "Source is untouched until the copy is proven" (offload.go:351): when   *)
(* the path has been swapped, the copy it leads to is complete.            *)
CopyIsProven ==
    \A a \in Actors : pc[a] = "done" =>
        LET t == job[a].target IN
        written[t] \ late[t] \subseteq dst[t][pinned[a]].data
=============================================================================
