------------------------------ MODULE History ------------------------------
(***************************************************************************)
(* The scan of a full tick, the three history tables it fills, and what    *)
(* reads them: internal/scan, the history part of internal/store, the      *)
(* idle_repos and cache_velocity heuristics, and the gatherers of          *)
(* `noo-noo trends` and `noo-noo status`.  One collector at a time, each   *)
(* stamping its rows with the time it began; the file system, git and the  *)
(* clock move between any two steps.                                       *)
(***************************************************************************)
EXTENDS Trend

CONSTANTS
    Repo, Branch, Cache, Volume, Clone,
    Nested,         \* the branches with a slash, whose files lie below refs/heads
    Scenes,         \* the sets of these that a machine may hold
    None,
    Throttle,       \* diskSampleThrottle
    MinIdle,        \* [heuristics.idle_repos] min_idle_days
    MinNm,          \* min_node_modules_bytes
    Lookback,       \* cache_velocity's window_days, and the readers' -days
    Multi,          \* growth_multiplier
    Gap,            \* the gap that separates two scan batches
    MaxSize,        \* bound: bytes of a cache, used bytes of a volume
    Start, MaxTime, \* bound: the clock
    MaxUser,        \* bound: what happens on the machine
    MaxFaults       \* bound: failing statements, walks and sends, and kills

ASSUME HistoryAssumption ==
    /\ {Throttle, MinIdle, MinNm, Lookback, Gap, MaxSize, Start, MaxTime, MaxUser, MaxFaults} \subseteq Nat
    /\ Start <= MaxTime /\ 1 <= MaxSize
    /\ Cache \cap Repo = {} /\ IsFiniteSet(Repo \cup Cache \cup Volume) /\ Branch # {}
    /\ None \notin Nat

VARIABLES
    now,
    scene,
    repo,       \* what .git and node_modules of each repository say
    size,       \* bytes of each cache, None when it is missing
    used,       \* used bytes of each volume
    idleRows,   \* repo_idleness
    cacheRows,  \* cache_size_history
    diskRows,   \* disk_space_history
    pc,         \* where the daemon's tick is
    trig,
    at,         \* the time the current step of the tick captured
    todo,       \* what the current loop has left
    found,      \* the suggestions of this tick
    walked,     \* history: of a repository this tick walked, when the last commit was
                \* made, and the one checked out, if its object and branch were loose
    measured,   \* history: what this tick measured
    whole,      \* history: no statement of this tick's scan has failed
    user, faults

worldVars == <<repo, size, used, user>>
tableVars == <<idleRows, cacheRows, diskRows>>
seenVars  == <<walked, measured, whole>>
histVars  == <<now, scene, worldVars, tableVars, pc, trig, at, todo, found, seenVars, faults>>

Sizes == 0..MaxSize
Times == 0..MaxTime
Repos   == scene \cap Repo
Caches  == scene \cap Cache
Volumes == scene \cap Volume

HistoryInit ==
    /\ now = Start /\ scene \in Scenes
    /\ repo = [r \in Repo |->
                [head |-> CHOOSE b \in Branch : TRUE, refs |-> 0, nm |-> MinNm, nmAt |-> 0,
                 tips |-> [b \in Branch |-> [at |-> 0, loose |-> FALSE]], there |-> TRUE]]
    /\ size = [c \in Cache |-> 1] /\ used = [v \in Volume |-> 1]
    /\ idleRows = [r \in Repo |-> None] /\ cacheRows = {} /\ diskRows = {}
    /\ pc = "idle" /\ trig = "daily" /\ at = 0 /\ todo = <<>> /\ found = {}
    /\ walked = [r \in Repo |-> None] /\ measured = [c \in Cache |-> None] /\ whole = TRUE
    /\ user = 0 /\ faults = 0

(***************************************************************************)
(* The machine.                                                            *)
(***************************************************************************)
Pass == now < MaxTime /\ now' = now + 1

Happens == user < MaxUser /\ user' = user + 1

Git(r, f) == Happens /\ r \in Repos /\ repo[r].there /\ repo' = [repo EXCEPT ![r] = f]

(* A commit writes a loose object and renames the branch file into place.  *)
(* That touches refs/heads, but for a nested branch only when git makes    *)
(* the directory.  gc packs objects and branches; it touches refs/heads    *)
(* when it takes a branch file out of it, a repack or maintenance does not.*)
Commit(r) ==
    \E t \in {now} \cup (IF repo[r].head \in Nested THEN {repo[r].refs} ELSE {}) :
        Git(r, [repo[r] EXCEPT !.tips[repo[r].head] = [at |-> now, loose |-> TRUE], !.refs = t])
Gc(r) ==
    \E t \in {now, repo[r].refs} :
        Git(r, [repo[r] EXCEPT !.tips = [b \in Branch |-> [@[b] EXCEPT !.loose = FALSE]],
                               !.refs = t])
Checkout(r, b) == b # repo[r].head /\ Git(r, [repo[r] EXCEPT !.head = b])
Install(r)     == Git(r, [repo[r] EXCEPT !.nm = MinNm, !.nmAt = now])
Uninstall(r)   == repo[r].nm > 0 /\ Git(r, [repo[r] EXCEPT !.nm = 0])
Delete(r)      == Git(r, [repo[r] EXCEPT !.there = FALSE])

Resize(c, n) == Happens /\ c \in Caches /\ n # size[c] /\ size' = [size EXCEPT ![c] = n]
Fill(v, n)   == Happens /\ v \in Volumes /\ n # used[v] /\ used' = [used EXCEPT ![v] = n]

Machine ==
    \/ /\ \E r \in Repo : Commit(r) \/ Gc(r) \/ (\E b \in Branch : Checkout(r, b))
                            \/ Install(r) \/ Uninstall(r) \/ Delete(r)
       /\ UNCHANGED <<size, used, now>>
    \/ (\E c \in Cache, n \in Sizes \cup {None} : Resize(c, n)) /\ UNCHANGED <<repo, used, now>>
    \/ (\E v \in Volume, n \in Sizes : Fill(v, n)) /\ UNCHANGED <<repo, size, now>>
    \/ Pass /\ UNCHANGED worldVars

(***************************************************************************)
(* What the collectors read.                                               *)
(***************************************************************************)
(* A loose tip is dated by its object, a packed one by refs/heads. *)
HeadTime(r) ==
    LET tip == repo[r].tips[repo[r].head] IN IF tip.loose THEN tip.at ELSE repo[r].refs

LastCommit(r) == Max({repo[r].tips[b].at : b \in Branch})
LooseTip(r) ==
    LET tip == repo[r].tips[repo[r].head] IN IF tip.loose THEN tip.at ELSE None

LastActive(r) ==
    Max({HeadTime(r)} \cup (IF repo[r].nm > 0 THEN {repo[r].nmAt} ELSE {}))

(* Rows of one cache or volume since a time. *)
CacheSeries(c, since) == {s \in cacheRows : s.of = c /\ s.at >= since}
DiskSeries(v, since)  == {s \in diskRows : s.of = v /\ s.at >= since}

(* The bug of a throttle that one volume's sample sets for all. *)
AnyRecent(v) == {s \in diskRows : s.at >= at - Throttle}
(* The samples that hold a new one back. *)
Recent(v)    == DiskSeries(v, at - Throttle)

(* The bug of an error recorded as a size. *)
AnyRoot(c)  == TRUE
Sizeable(c) == size[c] # None

Fault == faults < MaxFaults /\ faults' = faults + 1
Fail == Fault /\ whole' = FALSE
Fine == UNCHANGED <<faults, whole>>

Stay    == todo' = Tail(todo) /\ UNCHANGED <<pc, at>>
Goto(l, S) == pc' = l /\ todo' = SetToSeq(S) /\ at' = now

(* One repository of the walk: its row is replaced; a failed upsert is     *)
(* dropped, and a repository that is gone keeps its row.                   *)
ScanRepo ==
    /\ pc = "repos" /\ todo # <<>> /\ Stay
    /\ LET r == Head(todo) IN
         \/ /\ repo[r].there /\ Fine
            /\ idleRows' = [idleRows EXCEPT ![r] = [last |-> LastActive(r), nm |-> repo[r].nm]]
            /\ walked' = [walked EXCEPT ![r] = [commit |-> LastCommit(r), tip |-> LooseTip(r)]]
         \/ ~repo[r].there /\ Fine /\ UNCHANGED <<idleRows, walked>>
         \/ repo[r].there /\ Fail /\ UNCHANGED <<idleRows, walked>>
    /\ UNCHANGED <<cacheRows, diskRows, measured, found>>

(* One cache root: a missing one is skipped, a failed insert ends the scan. *)
ScanCache ==
    /\ pc = "caches" /\ todo # <<>>
    /\ LET c == Head(todo) IN
         \/ /\ Sizeable(c) /\ Stay /\ Fine
            /\ cacheRows' = cacheRows \cup {[of |-> c, bytes |-> size[c], at |-> at]}
            /\ measured' = [measured EXCEPT ![c] = size[c]]
         \/ ~Sizeable(c) /\ Stay /\ Fine /\ UNCHANGED <<cacheRows, measured>>
         \/ Sizeable(c) /\ Fail /\ Goto("heur", {}) /\ UNCHANGED <<cacheRows, measured>>
    /\ UNCHANGED <<idleRows, diskRows, walked, found>>

(* One volume: sampled unless the throttle holds it back; a failed read or *)
(* insert ends the scan.                                                   *)
ScanDisk ==
    /\ pc = "disks" /\ todo # <<>>
    /\ LET v == Head(todo) IN
         \/ /\ Recent(v) = {} /\ Stay /\ Fine
            /\ diskRows' = diskRows \cup {[of |-> v, bytes |-> used[v], at |-> at]}
         \/ Recent(v) # {} /\ Stay /\ Fine /\ UNCHANGED diskRows
         \/ Fail /\ Goto("heur", {}) /\ UNCHANGED diskRows
    /\ UNCHANGED <<idleRows, cacheRows, walked, measured, found>>

(* From a collector to the next.  When diskutil cannot list the volumes    *)
(* none is sampled, and the scan has not failed.                           *)
NextCollector ==
    /\ todo = <<>>
    /\ \/ pc = "repos"  /\ Goto("caches", Caches) /\ Fine
       \/ pc = "caches" /\ Goto("disks", Volumes) /\ Fine
       \/ pc = "caches" /\ Volumes # {} /\ Fail /\ Goto("disks", {})
       \/ pc = "disks"  /\ Goto("heur", {}) /\ Fine
    /\ UNCHANGED <<tableVars, walked, measured, found>>

(***************************************************************************)
(* The heuristics over the tables.                                         *)
(***************************************************************************)
IdleRepos(t) ==
    {r \in Repo : /\ idleRows[r] # None
                  /\ idleRows[r].last <= t - MinIdle
                  /\ idleRows[r].nm >= MinNm}

Oldest(series) == CHOOSE s \in series : \A z \in series : s.at <= z.at

(* The bug of the largest sample for the latest. *)
Peaked(series) ==
    /\ Cardinality(series) >= 2 /\ Oldest(series).bytes > 0
    /\ \E x \in series : x.bytes >= Multi * Oldest(series).bytes
Grew(series) ==
    /\ Cardinality(series) >= 2 /\ Oldest(series).bytes > 0
    /\ Newest(series).bytes >= Multi * Oldest(series).bytes

CacheVelocity(t) == {c \in Cache : Grew(CacheSeries(c, t - Lookback))}

(* A heuristic whose query fails offers nothing. *)
Heuristics ==
    /\ pc = "heur" /\ Goto("leaks", {})
    /\ \/ Fine /\ found' = IdleRepos(now) \cup CacheVelocity(now)
       \/ Fail /\ found' \in {IdleRepos(now), CacheVelocity(now), {}}
    /\ UNCHANGED <<tableVars, walked, measured>>

Scan == ScanRepo \/ ScanCache \/ ScanDisk \/ NextCollector \/ Heuristics

(***************************************************************************)
(* The readers of the tables: `noo-noo trends`, `noo-noo status`.          *)
(***************************************************************************)
Trend(series) == LET b == DayBucket(series) IN [buckets |-> b, fit |-> LinearFit(b)]

(* gatherTrends: caches and volumes that have rows in the window. *)
CacheTrends(t) ==
    [c \in {x \in Cache : CacheSeries(x, t - Lookback) # {}} |-> Trend(CacheSeries(c, t - Lookback))]
DiskTrends(t) ==
    [v \in {x \in Volume : DiskSeries(x, t - Lookback) # {}} |->
        LET s == DiskSeries(v, t - Lookback)
            T == Trend(s)
        IN  [buckets |-> T.buckets, fit |-> T.fit,
             full |-> DaysUntilFull(MaxSize - Newest(s).bytes, T.fit)]]

(* status fits the same series, but counts what is free now. *)
InternalFull(v, t) == DaysUntilFull(MaxSize - used[v], Trend(DiskSeries(v, t - Lookback)).fit)

ScanTimestamps(since) == {s \in cacheRows \cup diskRows : s.at >= since}
ScanDensity(since) == Batches(ScanTimestamps(since), Gap)
=============================================================================
