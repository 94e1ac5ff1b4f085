----------------------------- MODULE AutoClean -----------------------------
(***************************************************************************)
(* The daemon's tick and its unattended deletions: RunTick, persistNew,    *)
(* openLeakSuggestions and runAutoClean of cmd/noo-nood/tick.go, the       *)
(* engine of internal/autoclean, and the RPCs that touch the same state    *)
(* (AutoClean.Toggle, Suggestions.Dismiss, Daemon.TriggerScan), at the     *)
(* grain of one SQL statement, file operation or lock operation per step.  *)
(*                                                                         *)
(* A tick comes in through a door: the consumer goroutine of Run, or one   *)
(* of the goroutines net/rpc starts for a TriggerScan.  Between any two    *)
(* steps of a tick other doors run, leaks are born, go stale, come back to *)
(* life and vanish, the user dismisses a row or throws the kill switch,    *)
(* and the daemon may be killed; the store and the disk survive that.      *)
(*                                                                         *)
(* The relocation branch of the tick (step 3b) is the daily run of module  *)
(* Offload; notifications change none of this state and are left out.      *)
(***************************************************************************)
EXTENDS Suggestions, FiniteSets

CONSTANTS
    Doors,       \* goroutines that run ticks
    Triggers,    \* Triggers[d]: the triggers door d brings in
    Target,      \* paths and family handles the heuristics may name
    ModuleOf,    \* the heuristic that emits a target
    Families,    \* leak targets that are handles (root/prefix-*), not paths
    Size,        \* reclaimable bytes the scan measures
    Cap,         \* size_cap_per_tick_gb
    Allowed,     \* modules_allowed
    Toml,        \* the [auto_clean] switch and acknowledgement on disk
    NoDoor,
    MaxEvents,   \* bound: leaks reborn, rows dismissed and switches thrown
    MaxFaults,   \* bound: SQL statements, scans and deletes that fail
    MaxCrashes   \* bound: kills of the daemon

Modules     == {"leaks", "worktrees", "idle_repos"}
SelfProving == {"leaks", "worktrees"}
Switch      == [enabled: BOOLEAN, acked: BOOLEAN]

ASSUME AutoCleanAssumption ==
    /\ Triggers \in [Doors -> SUBSET {"daily", "pressure", "manual"}]
    /\ ModuleOf \in [Target -> Modules]
    /\ Families \subseteq {t \in Target : ModuleOf[t] = "leaks"}
    /\ Size \in [Target -> Nat] /\ Cap \in Nat
    /\ Allowed \subseteq Modules /\ Toml \in Switch
    /\ NoDoor \notin Doors /\ Target # {}
    /\ MaxEvents \in Nat /\ MaxFaults \in Nat /\ MaxCrashes \in Nat

VARIABLES
    world,      \* [Target -> {"absent", "live", "stale"}]
    rows,       \* suggestions
    audit,      \* auto_clean_events, counted per target and outcome
    cfg,        \* the live switch the Toggle RPC writes
    acking,     \* a Toggle has set Enabled and not yet the timestamp
    holder,     \* the door that holds tickMu
    lastTickNew,
    pc, job,    \* per door: next step, and local variables of RunTick
    events, faults, crashes,
    removed,    \* history: trees the engine has removed, per target
    seen        \* history: what was true at some moment of the tick in progress

bounds == <<events, faults, crashes>>
vars == <<world, rows, audit, cfg, acking, holder, lastTickNew, pc, job,
          events, faults, crashes, removed, seen>>

-----------------------------------------------------------------------------
(* A tick's local variables: `cands' still to be deduped, `cur' the one     *)
(* being inserted, `fresh' the rows it filed and `retry' the older ones,   *)
(* still to be evaluated, `probe' the open rows still to be Lstat'ed,      *)
(* `row' the one in hand, `snap' the switch as read, `used' the budget.    *)
(* `added' is what persistNew filed, `freed' a history of bytes removed.   *)

Blank == [trigger |-> "daily", cands |-> {}, cur |-> CHOOSE t \in Target : TRUE,
          fresh |-> {}, probe |-> {}, retry |-> {}, row |-> 0,
          snap |-> [enabled |-> FALSE, acked |-> FALSE], used |-> 0,
          result |-> "none", added |-> 0, reply |-> 0, freed |-> 0]

Id  == Nat \ {0}
Job == [trigger: {"daily", "pressure", "manual"}, cands: SUBSET Target,
        cur: Target, fresh: SUBSET Id, probe: SUBSET Id, retry: SUBSET Id,
        row: Nat, snap: Switch, used: Nat,
        result: {"none", "refused", "failed", "deleted"},
        added: Nat, reply: Nat, freed: Nat]

InTick == {"scan", "persist", "insert", "snapshot", "list", "probe", "dropgone",
           "evaluate", "record", "reprove", "remove", "settle", "dismiss", "unlock"}
Labels == InTick \cup {"idle", "lock", "reply", "answered"}

Goto(d, l)   == pc' = [pc EXCEPT ![d] = l]
Keep(d, j)   == job' = [job EXCEPT ![d] = j]
InHand(d)    == rows[job[d].row].target

On(c) == c.enabled /\ c.acked

(* Faults: an SQL statement, a scan or a file operation fails. *)
Fault   == faults < MaxFaults /\ faults' = faults + 1 /\ UNCHANGED <<events, crashes>>
NoFault == UNCHANGED bounds

-----------------------------------------------------------------------------
(* `seen' collects, for a door inside its tick, whether the switch was on, *)
(* and which targets were stale and which absent, at any moment since it   *)
(* took the lock.                                                          *)

Nothing == [on |-> FALSE, stale |-> {}, gone |-> {}]
Sight   == [on: BOOLEAN, stale: SUBSET Target, gone: SUBSET Target]

Look(s, w, c) ==
    [on    |-> s.on \/ On(c),
     stale |-> s.stale \cup {t \in Target : w[t] = "stale"},
     gone  |-> s.gone \cup {t \in Target : w[t] = "absent"}]

Witness ==
    seen' = [d \in Doors |->
                IF pc'[d] \in InTick THEN Look(seen[d], world', cfg') ELSE Nothing]

-----------------------------------------------------------------------------
Init ==
    /\ world \in [Target -> {"absent", "live", "stale"}]
    /\ rows = <<>>
    /\ audit = [t \in Target |-> [open |-> 0, deleted |-> 0, errored |-> 0]]
    /\ cfg = Toml /\ acking = FALSE
    /\ holder = NoDoor /\ lastTickNew = 0
    /\ pc = [d \in Doors |-> "idle"] /\ job = [d \in Doors |-> Blank]
    /\ events = 0 /\ faults = 0 /\ crashes = 0
    /\ removed = [t \in Target |-> 0]
    /\ seen = [d \in Doors |-> Nothing]

-----------------------------------------------------------------------------
(* The environment. *)

Event == events < MaxEvents /\ events' = events + 1 /\ UNCHANGED <<faults, crashes>>

(* A process makes the tree; stops using it; uses it again; someone (the   *)
(* CLI, a reboot) deletes it.                                              *)
WorldMoves(t, from, to) ==
    /\ world[t] = from /\ world' = [world EXCEPT ![t] = to]
    /\ UNCHANGED <<rows, audit, cfg, acking, holder, lastTickNew, pc, job, removed>>

Appear(t) == WorldMoves(t, "absent", "live") /\ Event
Die(t)    == WorldMoves(t, "live", "stale") /\ NoFault
Revive(t) == WorldMoves(t, "stale", "live") /\ NoFault
Vanish(t) == world[t] # "absent" /\ WorldMoves(t, world[t], "absent") /\ NoFault

(* Suggestions.Dismiss: the lookup among the open rows and the UPDATE are  *)
(* two statements, but nothing re-opens a row in between.                  *)
UserDismiss(id) ==
    /\ id \in ListOpen(rows) /\ Event
    /\ rows' = Dismissed(rows, id)
    /\ UNCHANGED <<world, audit, cfg, acking, holder, lastTickNew, pc, job, removed>>

(* AutoClean.Toggle runs on an RPC goroutine, with no lock: enabling sets  *)
(* Enabled first and the acknowledgement after it.  Nothing is persisted.  *)
ToggleOff ==
    /\ cfg.enabled /\ Event
    /\ cfg' = [cfg EXCEPT !.enabled = FALSE]
    /\ UNCHANGED <<world, rows, audit, acking, holder, lastTickNew, pc, job, removed>>

ToggleOn ==
    /\ ~cfg.enabled /\ Event
    /\ cfg' = [cfg EXCEPT !.enabled = TRUE] /\ acking' = TRUE
    /\ UNCHANGED <<world, rows, audit, holder, lastTickNew, pc, job, removed>>

ToggleAck ==
    /\ acking /\ NoFault
    /\ cfg' = [cfg EXCEPT !.acked = TRUE] /\ acking' = FALSE
    /\ UNCHANGED <<world, rows, audit, holder, lastTickNew, pc, job, removed>>

(* The daemon is killed and started again. *)
Crash ==
    /\ crashes < MaxCrashes /\ crashes' = crashes + 1
    /\ pc' = [d \in Doors |-> "idle"] /\ job' = [d \in Doors |-> Blank]
    /\ holder' = NoDoor /\ lastTickNew' = 0
    /\ cfg' = Toml /\ acking' = FALSE
    /\ UNCHANGED <<world, rows, audit, removed, events, faults>>

-----------------------------------------------------------------------------
(* RunTick: the door, the lock, the scan. *)

Request(d, trigger) ==
    /\ pc[d] = "idle" /\ trigger \in Triggers[d]
    /\ Goto(d, "lock") /\ Keep(d, [Blank EXCEPT !.trigger = trigger])
    /\ NoFault
    /\ UNCHANGED <<world, rows, audit, cfg, acking, holder, lastTickNew, removed>>

LockIgnored(d) == TRUE                      \* mutant: no tickMu
LockFree(d)    == holder = NoDoor

Lock(d) ==
    /\ pc[d] = "lock" /\ LockFree(d)
    /\ holder' = d /\ Goto(d, "scan")
    /\ NoFault
    /\ UNCHANGED <<world, rows, audit, cfg, acking, lastTickNew, job, removed>>

(* collectSuggestions: a pressure tick is light, it runs the leak scan     *)
(* only.  A heuristic whose scan errs contributes nothing.                 *)
Heuristics(trigger) == IF trigger = "pressure" THEN {"leaks"} ELSE Modules

Scan(d) ==
    LET found(ms) == {t \in Target : ModuleOf[t] \in ms /\ world[t] = "stale"}
        ms        == Heuristics(job[d].trigger)
    IN
    /\ pc[d] = "scan" /\ Goto(d, "persist")
    /\ \/ Keep(d, [job[d] EXCEPT !.cands = found(ms)]) /\ NoFault
       \/ \E m \in ms : Keep(d, [job[d] EXCEPT !.cands = found(ms \ {m})]) /\ Fault
    /\ UNCHANGED <<world, rows, audit, cfg, acking, holder, lastTickNew, removed>>

-----------------------------------------------------------------------------
(* persistNew: HasOpenSuggestion, then InsertSuggestion, per candidate.    *)

Dedupe(d) ==
    /\ pc[d] = "persist"
    /\ \E t \in job[d].cands :
          LET j == [job[d] EXCEPT !.cands = @ \ {t}] IN
          \/ /\ HasOpen(rows, t) /\ Keep(d, j) /\ NoFault /\ UNCHANGED pc
          \/ /\ ~HasOpen(rows, t) /\ Keep(d, [j EXCEPT !.cur = t]) /\ NoFault
             /\ Goto(d, "insert")
          \/ /\ Keep(d, j) /\ Fault /\ UNCHANGED pc
    /\ UNCHANGED <<world, rows, audit, cfg, acking, holder, lastTickNew, removed>>

Insert(d) ==
    /\ pc[d] = "insert" /\ Goto(d, "persist")
    /\ \/ /\ rows' = InsertOpen(rows, job[d].cur)
          /\ Keep(d, [job[d] EXCEPT !.fresh = @ \cup {Len(rows) + 1}])
          /\ NoFault
       \/ Fault /\ UNCHANGED <<rows, job>>
    /\ UNCHANGED <<world, audit, cfg, acking, holder, lastTickNew, removed>>

PersistDone(d) ==
    /\ pc[d] = "persist" /\ job[d].cands = {}
    /\ lastTickNew' = Cardinality(job[d].fresh)
    /\ Keep(d, [job[d] EXCEPT !.added = Cardinality(job[d].fresh)])
    /\ Goto(d, "snapshot") /\ NoFault
    /\ UNCHANGED <<world, rows, audit, cfg, acking, holder, removed>>

-----------------------------------------------------------------------------
(* The auto-clean branch: autoCleanCfgFn is read once, here.               *)

MayClean(d) == job[d].trigger # "pressure" /\ cfg.enabled

Snapshot(d) ==
    /\ pc[d] = "snapshot"
    /\ Keep(d, [job[d] EXCEPT !.snap = cfg])
    /\ Goto(d, IF MayClean(d) THEN "list" ELSE "unlock")
    /\ NoFault
    /\ UNCHANGED <<world, rows, audit, cfg, acking, holder, lastTickNew, removed>>

(* openLeakSuggestions: the open self-proving rows this tick did not file; *)
(* nothing if the query fails.                                             *)
FreshOnly(d) == {}                          \* mutant: the one-shot trap
Retryable(d) == {id \in ListOpen(rows) : ModuleOf[rows[id].target] \in SelfProving}
                    \ job[d].fresh

List(d) ==
    /\ pc[d] = "list" /\ Goto(d, "probe")
    /\ \/ Keep(d, [job[d] EXCEPT !.probe = Retryable(d)]) /\ NoFault
       \/ Fault /\ UNCHANGED job
    /\ UNCHANGED <<world, rows, audit, cfg, acking, holder, lastTickNew, removed>>

(* Lstat of a row's target: a family handle names no file. *)
LstatFinds(t) == t \notin Families /\ world[t] # "absent"

Probe(d) ==
    /\ pc[d] = "probe"
    /\ \/ /\ job[d].probe = {}
          /\ Goto(d, "evaluate") /\ UNCHANGED job
       \/ \E id \in job[d].probe :
          LET j == [job[d] EXCEPT !.probe = @ \ {id}] IN
          IF LstatFinds(rows[id].target)
          THEN Keep(d, [j EXCEPT !.retry = @ \cup {id}]) /\ UNCHANGED pc
          ELSE Keep(d, [j EXCEPT !.row = id]) /\ Goto(d, "dropgone")
    /\ NoFault
    /\ UNCHANGED <<world, rows, audit, cfg, acking, holder, lastTickNew, removed>>

KeepGone(id) == rows                        \* mutant: gone rows stay open
DropRow(id)  == Dismissed(rows, id)

DropGone(d) ==
    /\ pc[d] = "dropgone" /\ Goto(d, "probe")
    /\ \/ rows' = DropRow(job[d].row) /\ NoFault
       \/ Fault /\ UNCHANGED rows
    /\ UNCHANGED <<world, audit, cfg, acking, holder, lastTickNew, job, removed>>

-----------------------------------------------------------------------------
(* runAutoClean: fresh rows in the order they were filed, then the others. *)
(* Evaluated by EvaluateSuggestion, then charged to the budget: a retried  *)
(* row is projected without its size and is charged nothing, nor is an     *)
(* idle_repos row, whose evidence has no size_bytes.                       *)

IsNext(d, id) ==
    IF job[d].fresh # {} THEN id \in job[d].fresh /\ \A o \in job[d].fresh : id <= o
                         ELSE id \in job[d].retry

Charge(d, id) ==
    IF id \in job[d].fresh /\ ModuleOf[rows[id].target] \in SelfProving
    THEN Size[rows[id].target] ELSE 0

(* Gates 1, 1a and 2; gates 3 and 4 may refuse an idle_repos row.          *)
AckIgnored(d, t) == job[d].snap.enabled /\ ModuleOf[t] \in Allowed  \* mutant: no gate 1a
GatesPass(d, t)  == On(job[d].snap) /\ ModuleOf[t] \in Allowed

Evaluate(d) ==
    /\ pc[d] = "evaluate"
    /\ \/ /\ job[d].fresh \cup job[d].retry = {}
          /\ Goto(d, "unlock") /\ UNCHANGED job
       \/ \E id \in job[d].fresh \cup job[d].retry :
          LET t == rows[id].target
              j == [job[d] EXCEPT !.fresh = @ \ {id}, !.retry = @ \ {id}, !.row = id]
          IN
          /\ IsNext(d, id)
          /\ \/ /\ ~GatesPass(d, t) \/ ModuleOf[t] \notin SelfProving
                /\ Keep(d, j) /\ UNCHANGED pc
             \/ /\ GatesPass(d, t) /\ job[d].used + Charge(d, id) > Cap
                /\ Keep(d, j) /\ Goto(d, "unlock")
             \/ /\ GatesPass(d, t) /\ job[d].used + Charge(d, id) <= Cap
                /\ Keep(d, [j EXCEPT !.used = @ + Charge(d, id)]) /\ Goto(d, "record")
    /\ NoFault
    /\ UNCHANGED <<world, rows, audit, cfg, acking, holder, lastTickNew, removed>>

-----------------------------------------------------------------------------
(* Engine.Apply.  Counted per target are the in_progress rows, the deleted *)
(* ones, and the errored ones of a delete that failed; the rows of outcome *)
(* skipped, and the errored rows of a deleter (or git) that refused before *)
(* touching anything, are left out.                                        *)

NoPivot(t)  == audit                        \* mutant: no row before the delete
Pivot(t)    == [audit EXCEPT ![t].open = @ + 1]

Record(d) ==
    LET t == InHand(d) IN
    /\ pc[d] = "record"
    /\ \/ /\ ModuleOf[t] \in SelfProving
          /\ audit' = Pivot(t) /\ Goto(d, "reprove") /\ NoFault
       \/ /\ ModuleOf[t] \notin SelfProving    \* no deleter: safetyGuard, row skipped
          /\ Goto(d, "evaluate") /\ NoFault /\ UNCHANGED audit
       \/ Goto(d, "evaluate") /\ Fault /\ UNCHANGED audit
    /\ UNCHANGED <<world, rows, cfg, acking, holder, lastTickNew, job, removed>>

(* The module's own Apply classifies the target again and refuses one that *)
(* is not provably dead now.  A family is classified member by member, so  *)
(* part of a live one may still be deletable; a worktree whose directory   *)
(* is gone is pruned from git's registry.                                  *)
TrustPlan(t)  == TRUE                       \* mutant: no re-proof
ProvenDead(t) == world[t] = "stale" \/ (t \in Families /\ world[t] = "live")

Reprove(d) ==
    LET t == InHand(d) IN
    /\ pc[d] = "reprove"
    /\ \/ /\ ProvenDead(t) /\ Goto(d, "remove") /\ UNCHANGED job
       \/ /\ world[t] # "stale"
          /\ Goto(d, "settle") /\ Keep(d, [job[d] EXCEPT !.result = "refused"])
       \/ /\ world[t] = "absent" /\ ModuleOf[t] = "worktrees"
          /\ Goto(d, "settle") /\ Keep(d, [job[d] EXCEPT !.result = "deleted"])
    /\ NoFault
    /\ UNCHANGED <<world, rows, audit, cfg, acking, holder, lastTickNew, removed>>

(* os.RemoveAll, or git worktree remove without --force (which has a wall  *)
(* of its own), between two statfs calls.  A tree that came back to life   *)
(* after the re-proof goes too; of a family only the members in use stay.  *)
(* RemoveAll of what is no longer there succeeds.  The faults are those of *)
(* the delete and of the second statfs.                                    *)
Doomed(t)   == world[t] = "stale" \/ (world[t] = "live" /\ t \notin Families)
EmptyWin(t) == ModuleOf[t] = "leaks" /\ (t \in Families <=> world[t] = "live")

Remove(d) ==
    LET t == InHand(d)
        end(r, n) == Keep(d, [job[d] EXCEPT !.result = r, !.freed = @ + n])
        gone == /\ world' = [world EXCEPT ![t] = "absent"]
                /\ removed' = [removed EXCEPT ![t] = @ + 1]
    IN
    /\ pc[d] = "remove" /\ Goto(d, "settle")
    /\ \/ Doomed(t) /\ gone /\ end("deleted", Size[t]) /\ NoFault
       \/ /\ ~Doomed(t)
          /\ end(IF EmptyWin(t) THEN "deleted" ELSE "refused", 0)
          /\ NoFault /\ UNCHANGED <<world, removed>>
       \/ /\ world[t] = "live" /\ ModuleOf[t] = "worktrees"
          /\ end("refused", 0)
          /\ NoFault /\ UNCHANGED <<world, removed>>
       \/ end("failed", 0) /\ Fault /\ UNCHANGED <<world, removed>>
       \/ Doomed(t) /\ gone /\ end("failed", Size[t]) /\ Fault
    /\ UNCHANGED <<rows, audit, cfg, acking, holder, lastTickNew>>

(* The terminal outcome; an error of the UPDATE is ignored. *)
Closed(t, result) ==
    CASE result = "refused" -> [audit EXCEPT ![t].open = @ - 1]
      [] result = "failed"  -> [audit EXCEPT ![t].open = @ - 1, ![t].errored = @ + 1]
      [] OTHER              -> [audit EXCEPT ![t].open = @ - 1, ![t].deleted = @ + 1]

DismissAlways(d) == TRUE                    \* mutant: the error is not looked at
Handled(d)       == job[d].result = "deleted"

Settle(d) ==
    /\ pc[d] = "settle"
    /\ \/ audit' = Closed(InHand(d), job[d].result) /\ NoFault
       \/ Fault /\ UNCHANGED audit
    /\ Goto(d, IF Handled(d) THEN "dismiss" ELSE "evaluate")
    /\ UNCHANGED <<world, rows, cfg, acking, holder, lastTickNew, job, removed>>

Dismiss(d) ==
    /\ pc[d] = "dismiss" /\ Goto(d, "evaluate")
    /\ \/ rows' = Dismissed(rows, job[d].row) /\ NoFault
       \/ Fault /\ UNCHANGED rows
    /\ UNCHANGED <<world, audit, cfg, acking, holder, lastTickNew, job, removed>>

-----------------------------------------------------------------------------
(* The deferred Unlock; TriggerNow reads the count for its reply after it. *)

Unlock(d) ==
    /\ pc[d] = "unlock" /\ holder' = NoDoor
    /\ IF job[d].trigger = "manual"
       THEN Goto(d, "reply") /\ UNCHANGED job
       ELSE Goto(d, "idle") /\ Keep(d, Blank)
    /\ NoFault
    /\ UNCHANGED <<world, rows, audit, cfg, acking, lastTickNew, removed>>

Reply(d) ==
    /\ pc[d] = "reply" /\ Goto(d, "answered")
    /\ Keep(d, [job[d] EXCEPT !.reply = lastTickNew])
    /\ NoFault
    /\ UNCHANGED <<world, rows, audit, cfg, acking, holder, lastTickNew, removed>>

Return(d) ==
    /\ pc[d] = "answered" /\ Goto(d, "idle") /\ Keep(d, Blank)
    /\ NoFault
    /\ UNCHANGED <<world, rows, audit, cfg, acking, holder, lastTickNew, removed>>

-----------------------------------------------------------------------------
Environment ==
    \/ \E t \in Target : Appear(t) \/ Die(t) \/ Revive(t) \/ Vanish(t)
    \/ \E id \in DOMAIN rows : UserDismiss(id)
    \/ ToggleOff \/ ToggleOn \/ ToggleAck
    \/ Crash

Step(d) ==
    \/ Scan(d) \/ Dedupe(d) \/ Insert(d) \/ PersistDone(d) \/ Snapshot(d)
    \/ List(d) \/ Probe(d) \/ DropGone(d)
    \/ Evaluate(d) \/ Record(d) \/ Reprove(d) \/ Remove(d) \/ Settle(d) \/ Dismiss(d)
    \/ Unlock(d) \/ Reply(d) \/ Return(d)

Next ==
    /\ \/ Environment
       \/ \E d \in Doors : Lock(d) \/ Step(d)
       \/ \E d \in Doors : \E trigger \in Triggers[d] : Request(d, trigger)
    /\ Witness

Spec == Init /\ [][Next]_vars

(* The scheduler posts a daily tick every day, a goroutine in a tick keeps *)
(* running, and sync.Mutex hands itself to a waiter that starves.          *)
Fairness ==
    /\ \A d \in Doors : /\ WF_vars(Step(d) /\ Witness)
                        /\ SF_vars(Lock(d) /\ Witness)
                        /\ WF_vars(Request(d, "daily") /\ Witness)
FairSpec == Spec /\ Fairness

-----------------------------------------------------------------------------
(* The state has the shape of the tables, locks and local variables.       *)
TypeOK ==
    /\ world \in [Target -> {"absent", "live", "stale"}]
    /\ rows \in Seq(SuggestionRow(Target))
    /\ audit \in [Target -> [open: Nat, deleted: Nat, errored: Nat]]
    /\ cfg \in Switch /\ acking \in BOOLEAN
    /\ holder \in Doors \cup {NoDoor} /\ lastTickNew \in Nat
    /\ pc \in [Doors -> Labels] /\ job \in [Doors -> Job]
    /\ events \in Nat /\ faults \in Nat /\ crashes \in Nat
    /\ removed \in [Target -> Nat] /\ seen \in [Doors -> Sight]

(* The user is shown a target once: at most one row is open for it,        *)
(* whatever ticks, dismissals and kills overlap (tick.go:379-409: the      *)
(* check and the insert are two statements, tickMu keeps them together).   *)
OneOpenRow ==
    \A x, y \in ListOpen(rows) : rows[x].target = rows[y].target => x = y

(* No tree is removed that the audit table does not know of, whichever     *)
(* step a kill or a failed statement falls on (apply.go:206-218; "writes   *)
(* a complete audit log", README.md:149).                                  *)
RemovalsAreAudited ==
    \A t \in Target :
        removed[t] <= audit[t].open + audit[t].deleted + audit[t].errored

(* A tree the engine removes was provably dead at some moment of the very  *)
(* tick that removes it, its module is allowed, and the switch was on and  *)
(* acknowledged at some moment of that tick: neither a verdict nor a       *)
(* consent is carried over from an earlier tick or from before a restart   *)
(* (tick.go:130-134, module.go:187-195, config.go:131-156).                *)
RemovalsAreProvenAndConsented ==
    [][\A t \in Target : removed'[t] # removed[t] =>
          \E d \in Doors : /\ pc[d] = "remove" /\ job[d].trigger # "pressure"
                           /\ seen[d].on /\ t \in seen[d].stale
                           /\ ModuleOf[t] \in Allowed]_vars

(* A tick closes a row only if its target was gone at some moment of that  *)
(* tick ("the row's purpose (get the bytes back) is fulfilled",            *)
(* tick.go:432-434; :499-504).  It fails for families: Lstat of a handle   *)
(* never finds it.                                                         *)
ClosedByTickMeansGone ==
    [][\A d \in Doors :
          pc[d] \in {"dropgone", "dismiss"} /\ pc'[d] # pc[d] /\ rows' # rows
              => InHand(d) \in seen[d].gone]_vars

(* With the switch on for good, a proven-dead path that fits the cap is    *)
(* not left lying: it is removed however often the first attempts fail     *)
(* (tick.go:121-127).                                                      *)
DeadIsCleaned ==
    \A t \in Target \ Families :
        ModuleOf[t] \in SelfProving \cap Allowed /\ Size[t] <= Cap =>
            ~<>[](On(cfg) /\ world[t] = "stale")

(* With the switch on for good, the row of a target that is gone for good  *)
(* is closed (tick.go:432-440).                                            *)
GoneIsClosed ==
    \A t \in Target :
        ModuleOf[t] \in SelfProving =>
            ~<>[](On(cfg) /\ world[t] = "absent" /\ HasOpen(rows, t))

-----------------------------------------------------------------------------
(* What the documentation says and the code does not do (README,           *)
(* section 5).                                                             *)

(* "The cap is the daily ceiling beyond which the autoclean engine will    *)
(* not delete more bytes - even if every other gate would let it"          *)
(* (budget.go:3-5).                                                        *)
CapBoundsTick == \A d \in Doors : job[d].freed <= Cap
=============================================================================
