# A formal model of noo-noo

noo-noo is a disk cleaner for macOS: a daemon (`cmd/noo-nood`), a command line
(`cmd/noo-noo`, `internal/cli`) and a menu bar application that talk over a
Unix socket and share one SQLite database and the user's files.  This
directory holds TLA+ modules of its core logic, the TLC configurations that
check them on small instances, and proofs for the TLA+ proof system.

Paths below are relative to the repository root (`internal/...`, `cmd/...`).

## 1. The system

| Part | State | Operations | What is hard |
|---|---|---|---|
| Relocation engine (`internal/modules/offload`, `cli/offload_cmd.go`) | the asset, its `.noo-noo-bak`, the copy on the volume, the symlink | `Apply`, `EnqueueDeferred`, `RunPending`, CLI `apply`, `run-pending`, `cancel` | a sequence of a dozen file operations, any of which may fail or be the last before a kill; owners that write meanwhile; a volume that goes away; two processes |
| Relocation queue (`store/reloc_queue.go`) | `relocation_queue` rows | enqueue with dedupe, list pending, mark attempt, resolve | several processes, statements without a transaction |
| Daemon loop (`cmd/noo-nood/main.go`) | two trigger channels, `tickMu`, the live auto-clean settings | scheduler, pressure goroutine, consumer, force-scan RPC, shutdown | starvation of the daily tick, ticks racing RPCs, shutdown with ticks in flight |
| Tick body (`cmd/noo-nood/tick.go`) | suggestion rows, audit rows, last-tick counter | scan, heuristics, persist, auto-clean, pending relocations, notify | settings read once and used for minutes, deletes decided on stale rows |
| Auto-clean engine (`internal/autoclean`) | budget of the tick, audit rows | gate cascade, safety wall, audited delete | the crash pivot, the size cap |
| Suggestions (`store/suggestions.go`, IPC and CLI) | suggestion rows | insert, dedupe, list, dismiss | a dismissed target comes back; check then insert |
| IPC server and instance lock (`internal/ipc/server.go`) | lock file, socket file, connections | start, probe, stop | the lock file is removed while others wait for it |
| Pressure watcher (`internal/pressure`) | first-high time, latch | sample, debounce, fire | one fire per episode, sampler errors |
| Leaks module (`internal/leaks`, `cli/leaks_cmd.go`) | none of its own | scan, classify (age, open files, sessions, launch causality, families), plan, apply with its second proof | the window between proof and delete; what never is provable |
| Worktree sweeper (`internal/worktrees`, `cli/worktrees_cmd.go`) | git's registry, branches, graves | classify, plan, apply, judge, grave, forced removal | the same window, with git and people working in the trees |
| Scan and history (`internal/scan`, `internal/store`) | `repo_idleness`, `cache_size_history`, `disk_space_history` | three collectors of a full tick | failing statements and kills between rows; throttles across restarts |
| Heuristics (`internal/heuristics`) | none | idle repositories, cache velocity, leaks | stale rows, git's packed objects |
| Leak storms (`tick.go`, `heuristics/leaks.go`, `store/leak_storms.go`) | last alert per signature, first-seen times | detect a burst, alert, record | cooldown across restarts and write failures; auto-clean in between |
| Trends (`internal/trend`, `cli/trends_cmd.go`, `cli/status_cmd.go`) | none | day buckets, least squares, days until full, batches, recurrences | boundaries of days and windows |
| Clone-aware sizing (`internal/sizer`) | none | union of physical extents, allocated blocks | clones, hard links, holes, several devices, nested hits |
| Safety walls (`internal/core/safety.go`) | none | may this path be deleted | components against prefixes |
| Caches, dev, app data (`internal/modules/caches`, `dev`, `orphanapps`) | none | scan, plan, apply | nested artefacts, partial removal, reinstalled apps, two sources of truth about apps |
| Orphans (`internal/procsig`) | none | scan, verify, SIGTERM, wait, SIGKILL | pids that are given out again |
| Startup (`internal/modules/startup`) | none | bootout, disable, enable | one of two calls failing |
| Virtual machine disks, memory, volumes | none | read and print | nothing is changed |
| Configuration, launchd, notifications, audit log, CLI printing, menu bar | files | one-shot reads and writes | little a model would add to |

The parts meet in four places: the SQLite tables (daemon, CLI), the file
system (daemon, CLI, every other application), the socket (CLI and menu bar to
daemon), and `config.toml`, which each process reads when it starts.

The daemon is the only long-lived process.  It runs one tick at a time under
`tickMu`; a tick is started by the daily scheduler, by the pressure watcher or
by an RPC.  A daily tick may auto-clean and apply one queued relocation.  The
CLI verbs (`offload`, `leaks`, `worktrees`, `caches`, ...) do the same work in
their own process with no lock shared with the daemon.

## 2. Modules

| Module | Models |
|---|---|
| `RelocQueue` | the `relocation_queue` table: one operator per SQL statement |
| `Offload` | relocation: engine, queue runs, CLI verbs, and the environment |
| `Suggestions` | the `suggestions` table: one operator per SQL statement |
| `AutoClean` | the tick and its unattended deletes, the kill switch, dismissals |
| `SocketOwner` | abstract: what the instance lock promises |
| `InstanceLock` | `Server.Start` and `Server.Stop`, one system call per step; implements `SocketOwner` |
| `Pressure` | the sample window and cooldown of the disk watcher, as operators |
| `Daemon` | lanes, scheduler, watcher, consumer, tick lock, shutdown, restart |
| `Deleter` | abstract: what every deleter promises about proof and removal |
| `Worktrees` | the sweeper, the judge, git and the people in the trees; implements `Deleter` |
| `Leaks` | signatures, scan and apply probe by probe, and the programs that leak; implements `Deleter` |
| `Sizer`, `FamilyNames`, `LeakReport` | the extent union; how family members are told by name; the sizes and names of a leak report, over the states of `Leaks` |
| `Trend`, `History`, `Storms` | the mathematics of trends; the scan, its tables, the heuristics and the readers; the tick around them up to the storm alert |
| `Walls`, `AppIndex`, `Orphans` | the safety wall; which app owns a directory; the process table and the orphan rule |
| `Cleaners` | one run of `caches`, `dev`, `apps clean`, `orphans kill`, `startup disable` or `restore`; implements `Deleter` |
| `MCOffload`, `MCAutoClean`, `MCInstanceLock`, `MCDaemon`, `MCWorktrees`, `MCLeaks`, `MCStorms`, `MCCleaners` | instances for TLC |
| `OffloadProofs`, `AutoCleanProofs`, `InstanceLockProofs`, `DaemonProofs`, `WorktreesProofs`, `LeaksProofs`, `CleanersProofs`, `StormsProofs` | theorems about the module of that name and those it extends |

How they compose: `Daemon` says when a tick runs, `AutoClean` what a tick does
to suggestions, audit rows and trees, and the daily run of `Offload` is the
tick's last branch.  `InstanceLock` is what `main` does before the daemon
serves.  `Daemon` and `AutoClean` both model `tickMu`; in `Daemon` a tick is a
critical section of unknown length, in `AutoClean` it is the steps inside.

`AutoClean` sees a deleter as two steps, `Reprove` and `Remove`.  `Worktrees`
and `Leaks` are those two steps in full, beside the CLI verbs that call the
same code.  What `AutoClean` relies on is stated once, in `Deleter`: an agent
that removes a target has, since it turned to it, seen every fact of one of
the target's proofs be true.  `Worktrees`, `Leaks` and `Cleaners` are shown to
implement it with their own facts.  `Storms` is the same tick again, seen from
its other product: `ScanStep` fills the tables of `History`, `ScanLeaks` the
report, and `AutoClean` is one step that removes any of the stale leaks.

### Offload

One state variable per place the code can change.  `src`, `bak`, `dst` are the
target path, its `.noo-noo-bak` and `<dest_root>/<asset id>` per destination
pin; a node is missing, a directory with a set of items, or a link to a pin (an
asset moved before, whose destination was then re-pointed in `config.toml`).
`rows` is the queue; `conf` is what `config.toml` says and `pinned[a]` what
process `a` read from it; `pc[a]` and `job[a]` are the program point and the
locals of `RunPending`/`recheckOne`/`Apply` in process `a`.  `written`, `late`
and `behind` are history variables: every item its application ever wrote, those
written while an apply of the target was past its gate, and those a link led to
that an apply replaced.

The actions follow `recheckOne` and `Apply` call by call:

    StartPending -> GatesPass -> Mark -> GuardsPass -> CopyStart -> CopyEnd
      -> Verify -> Swap -> MakeLink -> CheckLink -> DropBak -> Done
                      |         |
                      v         v
                   DropDest <- Rollback <- Restore          -> Failed

with `GatesBlock`, `GuardsRefuse`, `CopyFail` for the refusals, `StartApply`,
`Offer`, `Insert` for the direct CLI run and the consent to queue, and
`Crash(a)` at any point.  The environment may start or quit the owner of an
asset, write through the path, mount or unmount a volume, edit the
configuration and cancel a row between any two of these steps.

What is abstracted:

* The gates 0 to 5 of one `recheckGates` call are read in one step; a probe
  that errs counts as a refusal.  `Apply` repeats them later in a step of its
  own, and the model lets the world change in between.
* The number of attempts is a Boolean; timestamps, reasons and freed bytes are
  dropped.  Rows are listed by id; the code orders by `queued_at_unix, id`.
* Every SQL statement succeeds (failures of the database itself are not
  modelled) and is atomic, as SQLite makes it.
* Content is a set of items.  `Silent` items are edits that keep the number of
  files and bytes, which the parity check cannot see.  `ditto` reads each item
  at an arbitrary moment of the copy and may leave counted items out without
  failing.  Given a link it copies the tree behind it, or any part of that: the
  parity check walks the link itself, counts no files on either side, and so
  passes a copy that holds no counted file.
* Applications write by path.  No power loss between a write and its flush.
* `--dry-run`, printing and the audit file are left out.

Properties:

* `SettledDataKept`: whatever was written before an apply passed its gate is
  reached through the path or the backup beside it, at every moment; what lay
  behind a link that was replaced is still in the copy it was moved to.
* `DoneMeansRelocated`: success means the path is a link to the pinned volume,
  no backup is left, and the copy holds all that no former copy holds.
* `CopyIsProven`, `NothingWrittenIsLost`, and `SettledDataKept` of two command
  lines: what the documentation says and the code does not do (section 5).
* `MovesAreConsented`: bytes move for a row only towards the destination its
  user agreed to and only after the attempt was recorded.
* `OneApplyPerDailyRun`: the daily budget counts failed applies too.
* `ClosedRowsStayClosed`: an applied or cancelled row never changes, and no
  run that listed it earlier starts to move it.

### AutoClean

A tick enters through a *door*: the consumer goroutine or a goroutine of
net/rpc.  Per door, `pc` and `job` are the program point and the locals of
`RunTick` and what it calls; `world[t]` is the tree behind a target (absent,
live, or stale, that is provably dead); `rows` the suggestions; `audit` the
rows of `auto_clean_events` counted per target; `cfg` the live switch that
the Toggle RPC writes with no lock; `holder` is `tickMu`.

    Request -> Lock -> Scan -> (Dedupe -> Insert)* -> PersistDone -> Snapshot
      -> List -> (Probe -> DropGone)*
      -> (Evaluate -> Record -> Reprove -> Remove -> Settle -> Dismiss)*
      -> Unlock -> Reply -> Return

| Action | Code |
|---|---|
| `Request`, `Lock`, `Unlock`, `Reply`, `Return` | `manualKicker.TriggerNow`, the consumer's `run` in `Run`, the mutex of `RunTick` |
| `Scan` | `collectSuggestions`: a pressure tick runs the leak scan only |
| `Dedupe`, `Insert`, `PersistDone` | `persistNew`: check, insert, count |
| `Snapshot` | the one read of `autoCleanCfgFn` |
| `List`, `Probe`, `DropGone` | `openLeakSuggestions` |
| `Evaluate` | `EvaluateSuggestion` and `Budget.Take` |
| `Record`, `Settle`, `Dismiss` | `Engine.Apply` before and after the delete, and the dismissal in `runAutoClean` |
| `Reprove`, `Remove` | the deleters: the module's fresh classification, then the delete |
| `ToggleOff`, `ToggleOn`, `ToggleAck`, `UserDismiss` | the RPCs; enabling is two writes |
| `Crash` | the daemon is killed and started again |

Each SQL statement, scan and delete has a failing branch (`Fault`).  `seen` is a
history variable: for a door inside its tick, whether the switch was on and
which targets were stale or absent at any moment of that tick.  It is what lets
a property say "not decided on yesterday's verdict".

Abstracted: gates 3 and 4 (which only concern rows of modules without a
deleter) may refuse or not; the safety wall of such rows (module `Walls`)
writes a `skipped` row and is the third branch of `Record`; audit rows of outcome `skipped` and
refusals that touched nothing are not counted; bytes are small integers.  A
family (`root/prefix-*`) is one target that is live while any member is; the
instances below have none, as families are checked member by member in `Leaks`.

Properties:

* `OneOpenRow`: at most one open row per target.
* `RemovalsAreAudited`: the audit table accounts for every removal, wherever a
  kill or a failed statement falls.
* `RemovalsAreProvenAndConsented`: a removal happens in a tick that is not a
  pressure tick, during which the tree was provably dead at some moment and
  the switch on and acknowledged at some moment, and its module is allowed.
* `ClosedByTickMeansGone`: a tick closes a row only if the target was gone at
  some moment of that tick.  False for families, see section 5.
* `DeadIsCleaned`, `GoneIsClosed`: with the switch on for good, a target that
  fits the cap does not stay dead for ever, and the row of a target gone for
  good is closed.
* `CapBoundsTick`: what `budget.go` says of the cap and the code does not do
  (section 5).

### SocketOwner and InstanceLock

`SocketOwner` has an owner, its phase and whom a client that dials the socket
reaches.  `InstanceLock` keeps the lock *path* and the *inode* it names apart,
because `flock` is taken on an inode: `path` is the inode the path names,
`fd[p]` the one process `p` has open, `held` the granted locks, `sock` whose
bind made the socket file.  `Open`, `Flock`, `FlockBusy`, `Dial`, `Unlink`,
`Listen` are `Server.Start`; `StopUnlink`, `StopClose`, `StopRemove`,
`DropPath`, `DropFd` are `Server.Stop` and `releaseLock`; `Kill` is a process
death, after which the kernel closes what was open and the files stay.  A
process in `Old` is a daemon of a version without the lock, already serving.

`stray` is a history variable: a lock was granted on a file that the lock path
no longer names.  `releaseLock` removes the file by its path and a starter
opens and locks it in two calls, so this can happen, and it is where the law
ends: `SocketOwner` has a phase `forfeit` for it, from which nothing is
promised.

Properties: `SingleInstance` (the refinement, with the owner being the process
whose listener is open, until the lock is forfeit), `OlderDaemonIsSafe` (a
daemon without the lock keeps its socket and is the only one to listen, even
when the lock is forfeit, since every start dials before it unlinks),
`AloneIsNotRefused` (a start that meets nobody is not refused because of files
left behind).  `OneOwner`, the law as the comment in `server.go` has it, without
a condition, is violated (section 5).

### Pressure and Daemon

`Pressure` has the operators on the sample buffer: a full window of which four
fifths are high fires, unless the cooldown is running.  `Daemon` has the
process (`phase`), the two lanes (`daily`, `trig`), the three goroutines `Run`
waits for (`scheduler`, `watcher`, `pc[Consumer]`) and those of net/rpc it does
not wait for.  `Poll` is the non-blocking priority check, `Select` the select
after it, which picks at random among what is ready; `TimerFires` and `Sample`
post into the lanes and drop when full; `Drained` is what `Run` waits for.
`due` and `passed` are history variables.

Properties: `TicksSerialized`; `ScheduledTicksHaveStore` (the store is not
closed under a scheduled tick); `DailyOvertakenOnce`; `DailyServed`,
`LowDiskIsScanned` and `ShutdownEnds` for liveness.

### Worktrees

The linked worktrees of one repository.  Per tree: whether its directory is
there, away (an unplugged volume) or removed, and by whom; whether git lists it,
whether it is locked, held open, fresh (its idle clock below `min_idle`), and
whether its branch exists.  A piece of *work* is edited, staged or committed
in its home tree, perhaps ignored by git, perhaps pushed to some remote ref,
perhaps to the upstream of its own branch (`upstream`; `tracks` are the trees
whose branch has one), perhaps merged into the main checkout (`merged`); `grave`
is what the bundles and tarballs hold, by name and second.

| Action | Code |
|---|---|
| `Scan`, `Rule` | `Module.Scan` and `Plan`; `worktreesJudge` up to the confirmation, any answer of the judge |
| `Locate` | `locate`, the row git lists now, and the first checks of `Apply` |
| `Freshness`, `Status`, `Contains`, `Ahead`, `Probe` | `Classify` at apply time, one reading per step |
| `Remove`, `DeleteBranch`, `Prune` | `git worktree remove`, `branch -d`, `worktree prune` |
| `Bundle`, `Tar`, `NoGrave`, `ForceRemove`, `ForceBranch` | `Grave`, `tarDirty`, `ForceRemove` |
| `Fail` | a call that fails, after which the target is left; or the death of the process |
| `Edit`, `Record`, `Push`, `Merge`, `GoIdle`, `OpenOrClose`, `LockOrUnlock`, `ComeOrGo` | the people and their disks |

Abstracted: git itself is modelled by what the sweeper relies on (`remove`
refuses locked and dirty trees, `--force` locked ones only, `branch -d`
branches that are not merged into their upstream or, without one, into HEAD).
A `rev-list` that fails reads as "no upstream", as in the code.  No upstream is
a local branch, is unset or is pruned by a fetch.  The rows of one scan are read
in one step, since each is proved again at its turn.  Writing a file may or may not move the idle clock,
which reads three mtimes only.

* `WorkKept`: neither tier loses work, but for the ways `Excused` names, each
  a hazard of its own;
* `KeepsPromise`: a tree goes without a verdict only after it was seen
  unlocked, idle, clean, contained in a remote and unheld;
* `DeadGoes`: a tree for which all of that stays true, and which is not ahead
  of the upstream of its branch, is removed;
* `VerdictLosesNothing`, `PruneIsFree`: what comments say and the code does not
  do (section 5).

### Leaks, LeakReport, Sizer, FamilyNames

`Leaks` has a tree per hit with the rule of its signature: a `clone` (launch
causality), an `aged` directory, an agent `session`, an `entry` of a live
session's scratchpad, a `member` of a family.  A tree has a birth, a newest
mtime, perhaps a plain file held open and, in a family, perhaps a socket, pipe
or device, which makes it no scratch (`special`); `proc` are the instances of the
program that makes clones: started, clone made, running from it.  Every clone
is a hard link to one launcher, so `Rows`, what lsof prints, names every
running instance under every clone: that is why causality exists.

    Scan -> Turn -> (Member)* -> [Session] -> [Age] -> Probe -> [Causal] -> Remove

is `Module.Scan`/`Plan`, then `Apply`/`applyFamily` with the readings that the
rule of the kind asks for, one per step.  `Fail` is a probe that times out, a
walk or removal that fails, or a crash.  The programs may launch, clone, exec,
quit, write, bind, open, close, end or resume a session and mint a member
between any two steps.  Time is counted in causality margins.

`Sizer` merges sorted extents device by device as `extent_darwin.go` does and
has as its reference the set of allocated blocks; `FamilyNames` splits names
made of character classes; `LeakReport` puts both over the states of `Leaks`.
Sizing fails in the ways it does in the code: of a file only the first
`Mapped[f]` extents are listed, a tree that is not in `Walked` cannot be walked,
which leaves a hit of which it is a root without a size, and is passed over
below one.

* `KeepsPromise`: a hit is removed only after every fact of its rule was true
  since the sweeper turned to it;
* `DeadGoes`: what is dead and stays dead goes, a clone beside running
  instances and an entry beside its live session included;
* `ReportIsTrue`: the headline is the union of the blocks that were read of, and
  of all there are when nothing failed; of the blocks the planned rows know of,
  a clean frees no more than it announces; and a family is found again from its
  handle;
* `AtMostTheSmaller`: the announced bound as the command has it, without the
  condition that the sizes were read, is violated (section 5).

Abstracted: globs and ages are the constants `Kind` and `Gate`; a removal that
fails half way counts as failed with the tree still there; reading transcripts
is "some process or transcript speaks for the session".  A target's spelling
(`CanDeleteLeakTarget`) is not modelled.

### Trend, History, Storms

`History` is the scan of a full tick.  A repository has branches with a tip
each (loose or packed), a packed tip being dated by `refs/heads` as
`readHeadCommitTime` does.  A commit to a branch in `Nested` (`feature/x`) need
not touch that directory, nor need a gc.  Caches and volumes have sizes.  `ScanRepo`,
`ScanCache`, `ScanDisk` write one row per step, stamped with the time their
collector began; `NextCollector` and `Heuristics` follow `ScanRoots` and
`collectSuggestions`.  `CacheTrends`, `DiskTrends`, `InternalFull`,
`ScanDensity` are what `trends` and `status` compute from the tables with the
functions of `Trend`, where rates are exact fractions.  The machine (commit,
gc, checkout, install, delete, resize, fill) and the clock move between any
two steps.

`Storms` is the tick around it: `RunTick` (pressure ticks skip the scan),
`ScanLeaks` with the suggestions it files, `AutoClean`, `Detect`, then
`Alert` and `Record` per storm, the ledger being read before the notification
and written after it; `Kill` and `Restart` forget `leakFirstSeen`.

* `AlertsAreEarned`: two alerts closer than the cooldown cost a failure each,
  only an alert the user got mutes the next, and a storm is made of instances
  that are new or gone;
* `SamplingIsRegular`: disk samples are further apart than the throttle,
  across kills, and a scan without failure leaves no volume unsampled;
* `TrendsAreTrue`: buckets are ends of days, a rate has a positive denominator
  and the sign of the growth, batches are groups, recurrences are comebacks on
  another day;
* `FindingsAreTrue`: a cache accused of growth has grown, as measured in this
  very tick; a repository called idle had no loose commit checked out that is
  younger, when this tick walked it;
* `IdleHasNoCommits`, `StormsAreReal`: what idleness and storms are said to be,
  violated (section 5).

Times are read to the nanosecond and ticks are serialized by `tickMu`, so one
tick's rows are all earlier than the next one's; within a tick all rows of a
collector have one time.

### Walls, AppIndex, Orphans, Cleaners

A path is the sequence of its components.  `CanDelete` follows
`Safety.CanDelete`; `Lookup` follows `Index.Lookup` (bundle id, name, then the
first word that says something); `IsOrphan` is the rule of `Module.Scan` in
`procsig`.  `Cleaners` runs one command:

    Scan -> Confirm -> (Turn -> Check -> <apply> -> Audit)* -> end

where `<apply>` is `Clear` (caches, entry by entry), `Remove_` (dev), `Mdfind,
Folders, Stat, Unique, Remove_` (apps, which proves its verdict again),
`Verify, Term, Grace, Kill, Mourn` (orphans), `Bootout, Disable` or `Enable`
(startup).  The file system, the installed apps, the process table and the
services move between the steps; `CtrlC` cancels the context, which stops
subprocesses and shortens the wait but not the loop; `Die` kills the command.
`vouched`, `late`, `struck`, `unlogged` and `seen` are history variables.

Sizes come from two walks.  `core.DirSize` (caches, dev) gives up at the first
directory it cannot read (`Sealed`), which its callers take for no bytes, and
counts hard links (files of one `Inode`) one by one; `sizer.UniqueAllocated`
(apps) passes over what it cannot read and counts an inode once.  `RemoveAll`
fails at a directory that it cannot read and that is not empty (`Stuck`).

* `StrikesAreAimed`: nothing outside the walls is removed, and a signal goes
  to the process just proved an orphan or to one that got its pid since;
* `KeepsPromise`: an app's directory goes, and a pid is signalled, only after
  every fact of the verdict was true since the command turned to it;
* `AuditIsTrue`: ok in the log means done, and what was hit is in the log;
* `PlanIsTrue`: the announced total counts no file twice, and forgets none where
  every directory can be read (and, for apps, no file has two names);
* `AnsweredEnds`: a command that was answered ends;
* `TotalCoversPlan`, `RecycledAreSpared`: what comments say and the code does
  not do (section 5).

Abstracted: a command depends on one part of the world (`Moving`), the others
stand still; the order of the actions is open; of the bytes a removal measures
nothing is said.  Extents that clones in two data directories share are left to
`Sizer`: here a file is in one directory.

## 3. Runs and bounds

| Run | Instance | Shows | States |
|---|---|---|---|
| `data` | 1 process (any verb), 1 asset, 1 counted and 1 silent write, 2 pins, 1 row | `SettledDataKept`, `DoneMeansRelocated`, `MovesAreConsented` | 4.4 M |
| `race` | 2 processes (the daemon's daily run or a direct apply; `run-pending` or a direct apply), 1 asset, 2 rows | `OneApplyPerDailyRun`, `ClosedRowsStayClosed` | 2.5 M |
| `lost` | as `data`, one pin and one item, no stop-gate on the asset | expects `NothingWrittenIsLost` to be violated (section 5) | |
| `ac_doors` | 2 doors with all triggers, 1 leak, hand-set switch, 3 events, 1 fault, 1 kill | the four safety properties of `AutoClean` | 1.4 M |
| `ac_retry` | 1 daily door, a worktree that fits the cap, an idle repository, 1 event, 1 fault, fairness | `DeadIsCleaned`, `GoneIsClosed` | 245 k |
| `lock_law` | 3 processes and an old one, 5 starts, 3 stops, kills | `SingleInstance`, `OlderDaemonIsSafe`, `AloneIsNotRefused` | 156 k |
| `daemon` | 1 consumer, 1 RPC goroutine, lane of 4, window of 4, cooldown of 1, fairness | all properties of `Daemon` | 74 k |
| `worktrees` | the daemon's sweeper and a judge, 2 trees of one name (one with a detached HEAD), 2 works, 2 steps of people | `TypeOK`, `WorkKept` | 2.1 M |
| `worktrees_dead` | the daemon's sweeper, the same trees and works, 1 failure, fairness | `KeepsPromise`, `DeadGoes` | 259 k |
| `leaks` | 1 sweeper, 6 scenes over 8 trees, 2 instances, clock of 3, 2 steps of programs, 1 failure, fairness | `TypeOK`, `ReportIsTrue`, `KeepsPromise`, `DeadGoes` | 276 k |
| `tick` | a repository, two volumes, a cache beside a volume, or clones of 2 signatures; 3 steps of the machine, 1 failure, clock 4 to 6 | `TypeOK`, `AlertsAreEarned`, `SamplingIsRegular`, `TrendsAreTrue`, `FindingsAreTrue` | 2.4 M |
| `cleaners` | each of the 6 commands over its part of the world, 2 steps of the world or Ctrl-C, 1 failure, fairness | `TypeOK`, `StrikesAreAimed`, `KeepsPromise`, `AuditIsTrue`, `PlanIsTrue`, `AnsweredEnds` | 221 k |

The longest takes less than three minutes with two workers.

`lost` is the run of a sentence of the documentation that TLC finds violated.
The modules state eleven more, which section 5 lists with the configuration in
which TLC finds each violated.

Why the bounds are enough for the cases that matter:

* `Offload`: the parity check tells counted items from silent ones, so one of
  each covers "complete", "short" and "complete but different"; two pins are
  needed for the configuration to be edited away and back, and for an asset to be
  moved from one to the other; two rows, which
  two processes may queue for one asset at once, for a budget of one to matter;
  the daemon and the CLI are the two processes a user has.
* `AutoClean`: two doors are the consumer and one RPC; a second RPC goroutine
  waits for the same mutex.  Three events allow a switch to be thrown, a leak
  to be reborn and a row to be dismissed in one behaviour.  One fault is enough
  for each "one step of several failed" case, as every step after it succeeds.
  Trees dying, reviving and vanishing are unbounded.
* `InstanceLock`: two processes contend and a third comes later; five starts
  let each be started again.  Kills are unbounded.  `MaxStarts` also bounds
  the inodes, as a start creates one at most.
* `Daemon`: four is the capacity in `main.go`; the window is the default
  debounce window divided by the default sample interval; any cooldown longer
  than one sample only makes fires rarer.
* `Worktrees`: the first state is any: each work in any place, pushed or not,
  each tree fresh or not.  Two steps of people let work be written and
  committed between two readings, or a tree be locked and unlocked.  Two trees
  with one name are what it takes for graves to collide and for `prune` to
  reach another tree; two seconds for graves to be apart.
* `Leaks`: the first state is any assignment of births, mtimes, starts and live
  sessions in a past of two units, with a margin, a delay and gates of one or
  two: older, equal and younger all occur.  Scenes are the sets of trees that
  can influence each other: clones, a family of two or three with a minimum of
  two, a session with an entry, an aged tree.
* `Storms`: a day is three units, the window one, the cooldown two, the
  lookback four: samples fall on one day and on two, inside the window and
  just outside it; three clones make a storm of two of one signature with one
  to spare; a scene has what shares a table or a clock.
* `Cleaners`: artefacts nest to depth two, lie below `.git` and name a root;
  a cache directory, an artefact and a data directory each have a directory that
  cannot be read in them, the last a file of two names as well; data
  directories are named after an id, a name, a word and a curated path;
  one pid besides the target lets a pid go to a stranger; one failure for
  "one step of several".

`TimerFires`, `DiskMoves`, `Kill`, `Start` and `Signal` of `Daemon` are
unbounded.  Deadlock is not checked where the bounds or the end of a command
leave nothing to do: in `lock_law` when all starts are used, in `worktrees`,
`leaks` and `tick` when clock and steps are used up, in `cleaners` when the
command has ended.

Fairness, per specification:

* `AutoClean!FairSpec`: weak fairness of the steps inside a tick, strong
  fairness of taking `tickMu` (Go's mutex hands itself to a waiter that has
  starved for a millisecond), weak fairness of the daily request (the scheduler
  posts one every day).  None for users, switches and trees.
* `Daemon!FairSpec`: the same for the lock; ticks end; goroutines run; the
  sampler's ticker ticks.  None for the timer, the disk, signals, kills and
  starts, so the liveness properties hold whenever these come, if at all.
* `Worktrees!FairSpec`, `Leaks!FairSpec`: weak fairness of the unattended
  sweeper, which the daily tick starts and whose every call has a timeout or
  ends, and in `Leaks` of the clock.  None for people, programs, the judge.
* `Cleaners!FairSpec`: weak fairness of the command's own steps except the
  answer to its question, which a user may never give.

## 4. Proofs

All theorems hold for every value of the constants that meets the module's
named assumption (`AutoCleanAssumption`, `InstanceLockAssumption`, ...).

`OffloadProofs`:

* `TypeCorrect`: `Spec => []TypeOK`;
* `Consent`: `Spec => []MovesAreConsented`, from the invariant `Consented`,
  which extends consent back to the program points between the gates and the
  copy, and from `Grown`: a step only appends rows and never changes the target
  or pin of one;
* `DailyBudget`: `Spec => []OneApplyPerDailyRun`, from `Frugal`: the counter
  is at least the number of rows invoked;
* `RowsCloseOnce`: `Spec => ClosedRowsStayClosed`.

As long as no two processes are between the gate and the end of an apply of one
asset (`Apart`, a condition on the states, whatever number of processes there
are; where it fails they can destroy each other's copy, section 5), it proves

* `NothingSettledIsLost`: `Spec /\ []Apart => []SettledDataKept`, and
* `RelocationComplete`: `Spec /\ []Apart => []DoneMeansRelocated`

from the invariant `Sound`: `Kept(t)` for every asset, and a condition
`PhaseAt` for each program point that says what has been copied, verified and
swapped so far; and `Shelved`: what lay behind a replaced link is in a copy
that no process at work removes.  That a copy is complete is proved of assets
that are directories, where parity counts; of a link it proves
nothing (section 5), and `behind` is what the properties leave out.

`AutoCleanProofs` proves `TypeCorrect`, `OneOpen`, `Audited`,
`ProvenAndConsented` and `ClosedPathIsGone` from the invariant `CleanInv`, whose
parts are

* `Mutex`: a door inside its tick holds `tickMu`; everything else leans on it;
* `IdsExist`: the row ids in a tick's locals are rows of the table; rows are
  only appended and keep their target, so they stay that;
* `Deduped`: a target about to be inserted has no open row, because only the
  holder inserts;
* `Ledger`: for each target, removals plus the pivot row of a delete in
  progress are covered by the audit counts;
* `Proven`: at each program point of a delete, what has been checked was seen
  in this tick: the switch as read at the snapshot, the tree as re-proved;
* `Fulfilled`: where a tick is about to close a row, the target at hand was gone
  at some moment of the tick, or it is a family.

`ClosedPathIsGone` says so of every target that is a path; `ClosedIsGone` is
the property `ClosedByTickMeansGone` itself, under the hypothesis that there
are no families, for which it is false (section 5).

`InstanceLockProofs` proves, of `Spec` without a condition on its steps,

* `LockIsTheLaw`: `Spec => SingleInstance`, the refinement of `SocketOwner`
  with its phase `forfeit`;
* `SingleOwner`: `Spec => [](stray \/ OneOwner)`: a lock granted on a removed
  lock file is the only thing that can break the law;
* `OlderDaemonStays`: `Spec => []OlderDaemonIsSafe`, forfeit or not;
* `StaleFilesDoNotRefuse`: `Spec => AloneIsNotRefused`,

from `LockInv`, whose parts are `TypeOK`, `Locks` (a granted lock has one
holder), `Named` (until the law is forfeit, a held lock is on the file the path
names), `Sockets` and `Path` (who listens and whose file the socket is, at each
program point) and `Rivals` (a refusal has a cause).

`DaemonProofs` proves `TypeCorrect`, `OneTick`, `StoreOutlivesTicks` and
`DailyNext` from `DaemonInv`: `TypeOK`, `Mutex`, `Closed` (when the store is
closed the consumer has ended) and `Overtaken` (a daily tick that has been
overtaken cannot be overtaken again before the next priority check).

`WorktreesProofs`:

* `TypeCorrect`, and `Refines`: `Spec => KeepsPromise`, from `SweepInv`: each
  sweeper keeps to its own program points, and what it has read of the tree at
  hand is in `seen`, the facts that were true since `Locate`;
* `WorkIsKept`: `Spec => WorkKept`, from `WorkInv`, which follows work on its
  way out: a listed tree on a branch has its branch (`Rooted`); graves hold
  work of trees of their name (`Graves`); the commits of a tree past `contains`
  are pushed, or newer than the reading (`Shared`); the work of a tree the
  judge condemned is in the grave, or newer than it (`Buried`).  The two
  "newer than" are what `Excused` names.

`LeaksProofs`:

* `TypeCorrect` and `Refines` from `LeaksInv`.  Its part `Causality` (a running
  instance's clone was made within `Delay` of its start) is what makes the rule
  of the code sound that only compares births: with `Delay <= Margin`, which
  `LeaksAssumption` states, a clone older than the start of every running
  instance by more than the margin belongs to none of them;
* `ReportTrue`: `Spec => []ReportIsTrue`, for all files, extents and volumes.
  What the merge of sorted extents keeps is `Seen`: closed intervals and the
  open one add up to what the extents so far cover, and none of them reaches
  beyond the open one's end, so that an extent that starts past it overlaps
  nothing.  Which walks and listings fail is any.  Sums over devices and rows
  are then compared with the cardinality of unions (`SumOfCards`).  Folds of the
  code's loops have no induction theorem here; `FoldExists` gives a fold over a finite set its value at every
  subset, as the least relation that holds its graph is a function, and
  `Descent` is induction over finite sets by the least counterexample;
* `HandleFindsFamily`: `HandleNamesItsFamily` for names of any length.

`CleanersProofs`:

* `TypeCorrect`; `NoStrayStrike` (`StrikesAreAimed`), `LogIsTrue`
  (`AuditIsTrue`) and `Refines` (`KeepsPromise`) from `CleanInv`: a command is
  about what it listed and stays in its own lane (`Aim`); what `apps` and
  `orphans` have read of the target is in `seen` (`Evidence`); who has a
  verified pid was vouched for or got it since (`Vouchers`); what was hit and
  not audited is the action at hand (`Open`);
* `PlanTrue`: `OrdinaryMachine => (Spec => PlanIsTrue)`, for every tree, every
  set of directories that cannot be read and any hard links.  The hypothesis is
  that no cache target, scan root or data directory lies inside another: with
  overlapping `--roots` the total counts twice (section 5); TLC evaluates it on
  the instance of the run.  The argument: every path has its directory in the
  tree (`Rooted`), so an artefact of `dev` starts at the first target name below
  a root, no two artefacts share a path and, where all can be read, every file
  below a target name is in one; and a sum over a finite set is the number of
  its units.  The latter is an induction over finite sets, which the lemma
  `Descent` does without the library's induction theorems, by the least
  counterexample.

`StormsProofs` proves, of the whole tick with the scan of `History` inside it,
`TypeCorrect`, `AlertsEarned`, `SamplingRegular`, `FindingsTrue` and
`TrendsTrue` from `TickInv`, whose parts are

* `Commits`, `Rows`: no commit and no row is from the future, and while a loop
  runs, the rows of what it has yet to visit are older than the loop;
* `SamplesAreSpaced`, `Sampled`: samples of one volume are further apart than
  the throttle, and a disk loop without failure leaves each volume behind it
  with a sample that is recent enough;
* `Measured`: the size a tick measured is the youngest row of the cache, the
  loose commit it saw checked out is not after its repository's row;
* `Alerts`: two alerts within the cooldown are at most as many as the failures
  (`Paid`); an alert given and not yet in the ledger has cost one or is about
  to be recorded.

* `Unique`: no two rows of a cache or volume have one time.

`TrendsTrue` is `Spec => []TrendsAreTrue`.  `Unique` and finitely many rows are
all it takes from the tick; the rest is about the functions of `Trend` on any
such rows, by `FoldExists` and `Descent`: `LastOfDay` (the bucket of a day is
the newest sample of the day) and `Grouped` (one batch for every time that none
precedes within the gap) hold after every sample taken.  The sign of a rate is
Chebyshev's inequality: a day added to the sums adds to
`n*sumXY - sumX*sumY` the products of its distances to all days before
(`SpreadStep`, `CrossStep`), which are all of one sign when both series run the
same way, or opposite ways.  With the days themselves for the bytes it says
that the denominator is positive, which `trend.go:97-98` claims of it.

Assumptions on constants are stated where these are declared and are what any
machine satisfies: thresholds are natural numbers, sets that are walked are
finite, the null value is none of the things it stands beside.  Those with
more to them: `CleanersAssumption` says that in a first state the directory of
a path is there and no file; `OrphansAssumption` that noo-noo runs itself;
`LeaksAssumption` that a program clones itself within the margin;
`LeakReportAssumption` that trees, files and extents are finitely many and that
extents start and end at integers, holes (start -1) and empty ones included.

Only model-checked:

* the liveness properties (`DeadIsCleaned`, `GoneIsClosed`, `DailyServed`,
  `LowDiskIsScanned`, `ShutdownEnds`, `DeadGoes` of `Worktrees` and of `Leaks`,
  `AnsweredEnds`): the proof system has no rules for fairness and `ENABLED`.

The proofs use no library theorem that takes an operator, and no definition the
proved modules reach is `RECURSIVE`; where the code sorts and walks, the model
folds over the finite set and takes the last of the order each time.

## 5. Where code and documentation disagree

Of each of these the module states what the quoted sentence says.  TLC finds it
violated when it is put into the configuration named; `MCOffload_lost.cfg` is the
run `lost`, which expects that.

| Definition, configuration | What the code does | What it says |
|---|---|---|
| `NothingWrittenIsLost`, `MCOffload_lost` | writes made after the copy was verified go with the backup (`offload.go:384`) | `offload_cmd.go:127`, "nothing is deleted until the copy is proven" |
| `CopyIsProven`, `MCOffload_data` | an asset that is a link counts as no files of no bytes on both sides, so a short copy of what it leads to passes, and the path is swapped to it (`sizes.go:115-135`, `offload.go:445-455`) | `offload.go:351`, "Source is untouched until the copy is proven." |
| `SettledDataKept`, `MCOffload_race` with `Items = {f}` | of two processes relocating one asset, the one that fails removes the destination of the one that succeeded (`offload.go:442`) | `offload.go:310-311` |
| `CapBoundsTick`, `MCAutoClean_retry` with `Target = {tree, leak}` | retried rows are charged nothing, so one tick may remove more than the cap (`tick.go:441`) | `budget.go:3-5`, "even if every other gate would let it" |
| `OneOwner`, `MCInstanceLock_law` | `releaseLock` removes the lock file by path; a process that has it open then locks a file without a name, a third creates a new one, and two daemons serve (`server.go:228`) | `server.go:84`, "Single-instance law" |
| `VerdictLosesNothing`, `MCWorktrees_sweep` | a file that is staged and not edited since is in no grave, as `ls-files --others --modified` does not list it (`judge.go:115`) | `worktrees.go:22-25`, "a wrong verdict loses nothing" |
| `PruneIsFree`, `MCWorktrees_sweep` | pruning the registration of a detached tree on an absent volume drops the only ref to its commits (`worktrees/module.go:155`) | `worktrees.go:162-163`, "removing the registration is free" |
| `AtMostTheSmaller`, `MCLeaks_stale` | a hit that could not be sized is planned with no bytes, and extents that could not be listed are left out (`leaks/module.go:277-282`, `extent_darwin.go:164-178, 296-301`) | `leaks_cmd.go:69-70`, "can free at most the smaller of the two" |
| `IdleHasNoCommits`, `MCStorms_tick` | after a commit to a branch whose name nests, a checkout of an older branch or a repack, a repository looks older than its last commit (`repos.go:114-158`) | `idle_repos.go:12-13`, "no commit in the last MinIdleDays" |
| `StormsAreReal`, `MCStorms_tick` | auto-clean between the scan and the storm detection makes the removed instances look new, and a storm is announced (`tick.go:175`) | `heuristics/leaks.go:60-62`, "a burst of NEW instances" |
| `TotalCoversPlan`, `MCCleaners_clean` | an artefact whose walk fails is planned with no bytes (`dev.go:57`; likewise `caches.go:57`) | `dev.go:40-42`, "and reports their sizes" |
| `RecycledAreSpared`, `MCCleaners_clean` | SIGKILL is sent without the second look SIGTERM has, so a pid that was given out again within the grace is killed (`procsig/module.go:166`) | `procsig/module.go:30`, "a recycled pid is refused, never signaled" |

The following came up while modelling and have no definition of their own, where none is named.

Data and processes:

* A clone younger than the margin is removed when no process runs from it yet
  (`causality.go:60-62`; `NeverJudgedYoung` of `Leaks` states the contrary, and
  TLC finds it violated when it is put into a configuration).
* Part of a family is deleted while another member is in use (`family.go:393`),
  and the rest, when fewer than `min_members`, is offered no more
  (`family.go:374`).
* A nested `.git` inside an artefact goes with the artefact: the wall reads the
  target's own path (`safety.go:73-80`, `dev.go:66`).
* With Spotlight off, or after Ctrl-C, the index of apps is built from the
  folders alone and data of apps installed elsewhere counts as abandoned
  (`index.go:119-147`).
* Ctrl-C stops no confirmed clean; it only skips waits and fails subprocesses.

Rows and alerts:

* The handle of a leak family is no file, so the next tick closes the family's
  row as gone while it is still there (`tick.go:435`).
* A target the user dismissed is filed again by the next tick.
* On a platform without birth times, instances look new after a restart, and a
  storm is announced.
* `TriggerNow` reads the count of new rows after the mutex is released and may
  report another tick's (`main.go:132`).
* `Run` does not wait for manual ticks: one in flight loses its store
  (`main.go:275`, `main.go:446`).
* A manual tick auto-cleans as a daily one does (`README.md:59`, "only on the
  daily tick"; `apply.go:209`, the same; the code accepts both).
* A kill between the pivot row and the terminal one leaves an `in_progress`
  row; nothing reads it back (`apply.go:216-218`).
* `Clean.Execute` writes one audit row per target and returns at the first
  failure (`clean_method.go:45`).
* Two processes can queue the same target twice, as the check and the insert
  are two statements (`reloc_queue.go:71-75`, "must not fork the queue").
* With one apply per daily run and the oldest row first, a row whose apply
  always fails starves the rows behind it (`pending.go:168`).
* A failed removal of the backup marks a relocated row blocked (`offload.go:385`,
  `pending.go:101-102`, "source untouched").
* Rows beyond a spent budget are re-checked and rewritten
  (`pending.go:129-130`, "left exactly as they were").

Numbers:

* The idle-repository rule compares the size of a directory *entry* with
  500 MB (`repos.go:111`, `idle_repos.go:13`): on most file systems it can
  never fire.  The model has a `node_modules` size that may reach the bound.
* Rows of repositories that are gone stay in `repo_idleness` (`scan.go:6-9`).
* `status` counts scan batches from tables a pressure tick does not write
  (`status_cmd.go:35-38`, `tick.go:92-105`).
* The disk throttle reads and then inserts in two statements (`disks.go:50`),
  so two processes that scan at once both insert.
* `caches` and `dev` count a file with two names twice, where `apps` counts it
  once (`walk.go:27`, `extent_darwin.go:288-292`).
* `caches` reports the size before as freed, with entries left behind, and
  audits ok (`caches.go:153-154`); overlapping `--roots` count twice in `dev`.
* `startup` announces a restore log that nothing writes (`startup.go:22-23`),
  and `restore` enables every listed service without asking.
* A user data directory with a space in its path is cut off there, where the
  comment says it fails to extract (`procsig.go:145-155`).
* The pressure watcher divides by the sample interval (`pressure/watch.go:65`),
  and a failed sample keeps the buffer (`watch.go:82`).

## 6. Plan

Every safety property of a passing run is a theorem.  What is left:

1. Weaker assumptions: `PlanTrue` for overlapping roots, with the bytes of the
   overlap stated.
2. The refinement of `Deleter` by the relocation engine and by auto-clean, which
   state their promises as action properties of their own.

### Not modelled

Virtual machine disks and colima (sizes are read and a plan is printed, nothing
is changed); memory and volume counters, which are read from the system and
printed; decoding of the configuration; the wording of reports, menu bar and
command line; launchd files, written once by install; migrations of the
schema; the report-only RPCs and `Clean.Execute`, which audits what another
application deleted; the spelling of a leak target; remote branches that a fetch
prunes and upstreams that are unset.  The `components` list of
`PROJECT.json` has every part with its files and status.
