------------------------------- MODULE Storms -------------------------------
(***************************************************************************)
(* The daemon's tick from the scan to the storm alert: cmd/noo-nood/tick.go *)
(* over History, with leak storms (heuristics/leaks.go, store/leak_storms  *)
(* .go).  One leak report serves the suggestions and the detector, and     *)
(* auto-clean deletes between the two; the ledger of alerts is read before *)
(* a notification and written after it.                                    *)
(***************************************************************************)
EXTENDS History

CONSTANTS
    Sig, SigOf,     \* the signature of each clone
    Window,         \* leakStormWindow
    MinCount,       \* leakStormMinCount
    Cooldown,       \* leakStormCooldown
    RecurrenceDays  \* recurrenceWindowDays

ASSUME StormsAssumption ==
    /\ {Window, MinCount, Cooldown, RecurrenceDays} \subseteq Nat /\ None \notin Sig /\ SigOf \in [Clone -> Sig]
    /\ IsFiniteSet(Clone) /\ IsFiniteSet(Sig)

VARIABLES
    clone,      \* each instance: none, live, stale, gone; and its birth time
    report,     \* the instances of this tick's leak report
    firstSeen,  \* leakFirstSeen, lost with the process
    ledger,     \* leak_storm_alerts: when each signature fired
    filed,      \* suggestions: when the row of each instance was filed
    notify,     \* [notify] enabled, read when the daemon starts
    told        \* history: the times of the alerts delivered

stormVars == <<clone, report, firstSeen, ledger, filed, notify, told>>
vars == <<histVars, stormVars>>
(* What no step of the leak half of a tick changes. *)
steady == <<now, scene, worldVars, tableVars, trig, notify>>

States == {"none", "live", "stale", "gone"}
Clones == scene \cap Clone

(* What the loop the tick is in runs over.                                 *)
Loop ==
    CASE pc = "repos"  -> Repos
      [] pc = "caches" -> Caches
      [] pc = "disks"  -> Volumes
      [] pc \in {"alert", "record"} -> Sig
      [] OTHER -> {}

TypeOK ==
    /\ now \in Times /\ at \in Times /\ scene \in Scenes
    /\ pc \in {"down", "idle", "repos", "caches", "disks", "heur", "leaks", "clean", "storm",
               "alert", "record"}
    /\ trig \in {"daily", "pressure", "manual"} /\ notify \in BOOLEAN /\ whole \in BOOLEAN
    /\ user \in 0..MaxUser /\ faults \in 0..MaxFaults
    /\ todo \in Seq(Loop) /\ (pc \in {"alert", "record"} => todo # <<>>)
    /\ repo \in [Repo -> [head : Branch, refs : Times, nm : {0, MinNm}, nmAt : Times,
                          tips : [Branch -> [at : Times, loose : BOOLEAN]], there : BOOLEAN]]
    /\ size \in [Cache -> Sizes \cup {None}] /\ used \in [Volume -> Sizes]
    /\ idleRows \in [Repo -> {None} \cup [last : Times, nm : {0, MinNm}]]
    /\ cacheRows \subseteq [of : Cache, bytes : Sizes, at : Times]
    /\ diskRows \subseteq [of : Volume, bytes : Sizes, at : Times]
    /\ found \subseteq Repo \cup Cache
    /\ walked \in [Repo -> [commit : Times, tip : Times \cup {None}] \cup {None}] /\ measured \in [Cache -> Sizes \cup {None}]
    /\ clone \in [Clone -> [st : States, born : Times]]
    /\ report \subseteq Clone
    /\ firstSeen \in [Clone -> Times \cup {None}] /\ ledger \in [Sig -> Times \cup {None}]
    /\ filed \in [Clone -> Times \cup {None}]
    /\ told \in [Sig -> Seq(Times)]

Init ==
    /\ HistoryInit
    /\ clone \in [Clone -> {[st |-> "none", born |-> 0], [st |-> "stale", born |-> 0]}]
    /\ \A k \in Clone \ Clones : clone[k].st = "none"
    /\ report = {} /\ firstSeen = [k \in Clone |-> None]
    /\ ledger = [s \in Sig |-> None] /\ filed = [k \in Clone |-> None]
    /\ notify \in BOOLEAN /\ told = [s \in Sig |-> <<>>]

(***************************************************************************)
(* The programs that leave clones behind.                                  *)
(***************************************************************************)
Relaunch(K) ==
    /\ K # {} /\ K \subseteq Clones /\ \A k \in K : clone[k].st = "none"
    /\ clone' = [k \in Clone |-> IF k \in K THEN [st |-> "live", born |-> now] ELSE clone[k]]
Exit(s) ==
    /\ \E k \in Clones : SigOf[k] = s /\ clone[k].st = "live"
    /\ clone' = [k \in Clone |-> IF SigOf[k] = s /\ clone[k].st = "live"
                                 THEN [clone[k] EXCEPT !.st = "stale"] ELSE clone[k]]

Programs ==
    /\ Happens /\ (\/ \E K \in SUBSET Clones : Relaunch(K) \/ \E s \in Sig : Exit(s))
    /\ UNCHANGED <<now, scene, repo, size, used, tableVars, pc, trig, at, todo, found, seenVars,
                   faults, report, firstSeen, ledger, filed, notify, told>>

Elsewhere ==
    /\ Machine
    /\ UNCHANGED <<scene, tableVars, pc, trig, at, todo, found, seenVars, faults, stormVars>>

(***************************************************************************)
(* The tick.                                                               *)
(***************************************************************************)
(* A pressure tick is light: leaks only.  Ticks run one after the other    *)
(* and times are kept to the nanosecond (tick.go:88-92, cache_history.go:  *)
(* 17-26): the clock has moved since the last one looked at it.            *)
RunTick(t) ==
    /\ pc = "idle" /\ now > at /\ trig' = t
    /\ IF t = "pressure" THEN Goto("leaks", {}) ELSE Goto("repos", Repos)
    /\ UNCHANGED <<now, scene, worldVars, tableVars, faults, found, seenVars, stormVars>>

ScanStep ==
    /\ Scan
    /\ UNCHANGED <<now, scene, worldVars, trig, stormVars>>

Present == {k \in Clones : clone[k].st \in {"live", "stale"}}

(* The suggestions are filed (module Suggestions) and forgotten. *)
Forget ==
    /\ found' = {} /\ walked' = [r \in Repo |-> None] /\ measured' = [c \in Cache |-> None]
    /\ whole' = TRUE

(* ScanLeaks, LeaksFromReport and persistNew: a stale hit without an open  *)
(* row files one.  A failed scan gives no report at all.                   *)
ScanLeaks ==
    /\ pc = "leaks"
    /\ \/ /\ report' = Present /\ UNCHANGED faults
          /\ filed' = [k \in Clone |-> IF k \in Present /\ clone[k].st = "stale" /\ filed[k] = None
                                       THEN now ELSE filed[k]]
       \/ report' = {} /\ Fault /\ UNCHANGED filed
    /\ Goto(IF trig = "pressure" THEN "storm" ELSE "clean", {})
    /\ Forget
    /\ UNCHANGED <<steady, clone, firstSeen, ledger, told>>

(* What auto-clean removes of this tick's stale leaks, if it is on. *)
AutoClean ==
    /\ pc = "clean" /\ Goto("storm", {}) /\ UNCHANGED faults
    /\ \E D \in SUBSET {k \in report : clone[k].st = "stale"} :
          clone' = [k \in Clone |-> IF k \in D THEN [clone[k] EXCEPT !.st = "gone"] ELSE clone[k]]
    /\ UNCHANGED <<steady, found, seenVars, report, firstSeen, ledger, filed, told>>

(* leakAppearedAt: the birth time of a path that is there; else when this  *)
(* process first missed it.                                                *)
AppearedAt(k, t) ==
    IF clone[k].st # "gone" THEN clone[k].born
    ELSE IF firstSeen[k] # None THEN firstSeen[k] ELSE t

(* LeakStorms: signatures with MinCount instances or more in the window. *)
Counted(s, t) == {k \in report : SigOf[k] = s /\ AppearedAt(k, t) >= t - Window}

LeakStorms(t) == {s \in Sig : Counted(s, t) # {} /\ Cardinality(Counted(s, t)) >= MinCount}

Detect ==
    /\ pc = "storm" /\ UNCHANGED faults
    /\ Goto(IF LeakStorms(now) = {} THEN "idle" ELSE "alert", LeakStorms(now))
    /\ firstSeen' = [k \in Clone |-> IF k \in report /\ clone[k].st = "gone"
                                     THEN AppearedAt(k, now) ELSE firstSeen[k]]
    /\ report' = IF LeakStorms(now) = {} THEN {} ELSE report
    /\ UNCHANGED <<steady, found, seenVars, clone, ledger, filed, told>>

(* The bug of a cooldown counted in the detection window. *)
MutedInWindow(s) == ledger[s] # None /\ at - ledger[s] < Window
Muted(s) == ledger[s] # None /\ at - ledger[s] < Cooldown

Onward ==
    /\ todo' = Tail(todo) /\ UNCHANGED at
    /\ IF Len(todo) = 1 THEN pc' = "idle" /\ report' = {} ELSE pc' = "alert" /\ UNCHANGED report

Unsent == Onward

(* One storm.  A ledger that cannot be read mutes nothing; a notification  *)
(* that is off or fails is not recorded.                                   *)
Alert ==
    /\ pc = "alert"
    /\ LET s == Head(todo) IN
         \/ /\ Muted(s) \/ ~notify
            /\ Onward /\ UNCHANGED faults /\ UNCHANGED told
         \/ /\ notify
            /\ (~Muted(s) /\ UNCHANGED faults) \/ (Muted(s) /\ Fault)
            /\ told' = [told EXCEPT ![s] = Append(@, at)]
            /\ pc' = "record" /\ UNCHANGED <<todo, at, report>>
         \/ notify /\ ~Muted(s) /\ Fault /\ Unsent /\ UNCHANGED told
    /\ UNCHANGED <<steady, found, seenVars, clone, firstSeen, ledger, filed>>

Record ==
    /\ pc = "record" /\ Onward
    /\ \/ Fine /\ ledger' = [ledger EXCEPT ![Head(todo)] = at]
       \/ Fault /\ UNCHANGED ledger
    /\ UNCHANGED <<steady, found, seenVars, clone, firstSeen, filed, told>>

Kill ==
    /\ pc # "down" /\ Fault /\ pc' = "down" /\ todo' = <<>> /\ Forget
    /\ report' = {} /\ firstSeen' = [k \in Clone |-> None]
    /\ UNCHANGED <<steady, at, clone, ledger, filed, told>>

Restart ==
    /\ pc = "down" /\ pc' = "idle" /\ notify' \in BOOLEAN
    /\ UNCHANGED <<now, scene, worldVars, tableVars, trig, at, todo, found, seenVars, faults,
                   clone, report, firstSeen, ledger, filed, told>>

Tick == ScanStep \/ ScanLeaks \/ AutoClean \/ Detect \/ Alert \/ Record

Next ==
    \/ Elsewhere \/ Programs
    \/ (\E t \in {"daily", "pressure", "manual"} : RunTick(t)) \/ Tick \/ Kill \/ Restart

Spec == Init /\ [][Next]_vars

(* gatherRecurrences: every row filed in the window, dismissed or not. *)
GatherRecurrences(t) ==
    Recurrences({[sig |-> SigOf[k], target |-> k, at |-> filed[k]]
                    : k \in {x \in Clone : filed[x] # None /\ filed[x] >= t - RecurrenceDays}}, None)

(***************************************************************************)
(* Properties of the alerts.                                               *)
(***************************************************************************)
(* "Alert at most once per leakStormCooldown per signature (ledger in the  *)
(* store, survives restarts)", tick.go:160-162: two alerts of a signature  *)
(* closer than that cost a failed statement or a kill between the          *)
(* notification and the ledger (tick.go:222-241), one each.                *)
AlertsAreSpaced ==
    \A s \in Sig :
        Cardinality({i \in 1..(Len(told[s]) - 1) : told[s][i + 1] - told[s][i] < Cooldown}) <= faults

(* A storm is muted only by an alert the user got: no failed notification, *)
(* and none that is switched off, leaves a ledger row (tick.go:231-241).   *)
MutedByTheTold == \A s \in Sig : ledger[s] # None => ledger[s] \in Range(told[s])

(* The instances of a storm appeared in the window or were gone when the   *)
(* detector looked for their birth (tick.go:174-187, leaks.go:77-113).     *)
Newborn(s) == {k \in report : SigOf[k] = s /\ clone[k].born >= at - Window}
StormIsNewOrGone ==
    pc \in {"alert", "record"} => \A s \in Range(todo) :
        Cardinality(Newborn(s) \cup {k \in report : SigOf[k] = s /\ clone[k].st = "gone"}) >= MinCount

(* Alerts are earned: spaced, muted by real ones only, each with its storm.*)
AlertsAreEarned == AlertsAreSpaced /\ MutedByTheTold /\ StormIsNewOrGone

(* "LeakStorm is a burst of NEW instances of one leak signature: Count     *)
(* instances whose appearance time falls inside the detection window"      *)
(* (leaks.go:60-62).  Not so of every storm found: auto-clean removes what *)
(* the detector then takes for new (tick.go:117-135, 175-187).             *)
StormsAreReal ==
    pc \in {"alert", "record"} => \A s \in Range(todo) : Cardinality(Newborn(s)) >= MinCount

(***************************************************************************)
(* Properties of the history.                                              *)
(***************************************************************************)
(* Whatever is killed, restarted or failing, two samples of one volume are *)
(* further apart than the throttle (scan/disks.go:47-58) ...               *)
SamplesAreSpaced ==
    \A a, b \in diskRows : a.of = b.of /\ a.at < b.at => b.at - a.at > Throttle

(* ... and a scan in which nothing failed leaves no volume without one     *)
(* that recent: one volume's sample does not hold back another's.          *)
NoVolumeUnsampled ==
    pc = "disks" /\ pc' = "heur" /\ whole' =>
        \A v \in Volumes : \E s \in diskRows' : s.of = v /\ s.at >= at - Throttle

(* Volumes are sampled neither too often nor too seldom.                   *)
SamplingIsRegular == [][SamplesAreSpaced' /\ NoVolumeUnsampled]_vars

Series == {CacheSeries(c, now - Lookback) : c \in Cache} \cup {DiskSeries(v, now - Lookback) : v \in Volume}

(* One point a day, and it is the last of the day, however the samples of  *)
(* the day are spread (trend.go:36-59).                                    *)
BucketIsEndOfDay ==
    \A S \in Series :
        LET b == DayBucket(S)
        IN  /\ DOMAIN b = {Day(s.at) : s \in S}
            /\ \A s \in S : \/ b[Day(s.at)] = s.bytes
                            \/ \E z \in S : Day(z.at) = Day(s.at) /\ z.at > s.at

(* A rate is given from two days on, over a positive span, with the sign   *)
(* of what all the days agree on; a date for "full" only while the disk    *)
(* fills (trend.go:61-121, trends_cmd.go:181-193, status_cmd.go:216-233).  *)
RateFollowsGrowth ==
    \A S \in Series :
        LET T == Trend(S)
            D == DOMAIN T.buckets
            Rises == \A d, e \in D : d < e => T.buckets[d] <= T.buckets[e]
            Falls == \A d, e \in D : d < e => T.buckets[d] >= T.buckets[e]
        IN  /\ T.fit.ok <=> \E a, b \in S : Day(a.at) # Day(b.at)
            /\ T.fit.ok => T.fit.den > 0 /\ T.fit.window >= 1
            /\ T.fit.ok /\ Rises => (T.fit.num > 0 <=> ~Falls)
            /\ T.fit.ok /\ Falls => (T.fit.num < 0 <=> ~Rises)
            /\ \A f \in 0..MaxSize : DaysUntilFull(f, T.fit).ok <=> T.fit.num > 0

(* A cache whose growth is reported and that this tick could measure is,   *)
(* as measured, that much larger than a sample of the window: one emptied  *)
(* before the scan is not accused (cache_velocity.go:26-51).               *)
VelocityIsGrowth ==
    \A c \in found \cap Cache :
        measured[c] # None =>
            \E s \in cacheRows : s.of = c /\ s.bytes > 0 /\ measured[c] >= Multi * s.bytes

(* A repository reported idle that this tick walked had no loose commit    *)
(* checked out, when it was walked, younger than min_idle_days (repos.go:  *)
(* 85-158, idle_repos.go:12-49).                                           *)
IdleIsQuiet ==
    \A r \in found \cap Repo :
        walked[r] # None /\ walked[r].tip # None => walked[r].tip <= now - MinIdle

(* What a tick suggests is so: growth as it measured it, and idleness as   *)
(* far as an object dates it.                                              *)
FindingsAreTrue == VelocityIsGrowth /\ IdleIsQuiet

(* "IdleRepos flags repositories with (a) no commit in the last            *)
(* MinIdleDays" (idle_repos.go:12-13).  Not so: a packed commit is dated   *)
(* by refs/heads, which commits to nested branches and repacks leave       *)
(* alone, and a commit to a branch that is not checked out by nothing      *)
(* (repos.go:114-158).                                                     *)
IdleHasNoCommits ==
    \A r \in found \cap Repo : walked[r] # None => walked[r].commit <= now - MinIdle

(* Batches counts the groups of samples that no gap divides, of both       *)
(* tables together (trend.go:123-145, status_cmd.go:263-293).              *)
BatchesAreGroups ==
    LET T == {s.at : s \in {x \in cacheRows \cup diskRows : x.at >= now - Lookback}}
    IN  ScanDensity(now - Lookback) =
            Cardinality({t \in T : \A z \in T : z < t => t - z > Gap})

(* A pattern is a class filed on two days or more, never a burst within    *)
(* one, and every such class is one (trend.go:167-231,                     *)
(* trends_cmd.go:205-230).                                                 *)
RecurrenceIsComeback ==
    LET P == GatherRecurrences(now)
    IN  /\ \A p \in P : Day(p.first) < Day(p.last) /\ p.days <= p.hits
        /\ \A j, k \in Clone :
              /\ filed[j] # None /\ filed[k] # None /\ SigOf[j] = SigOf[k]
              /\ Day(filed[j]) # Day(filed[k]) /\ now - RecurrenceDays <= Min({filed[j], filed[k]})
              => \E p \in P : p.sig = SigOf[k] /\ {j, k} \subseteq p.targets

(* The trends say what the rows say: days, rates, groups and comebacks.    *)
TrendsAreTrue == BucketIsEndOfDay /\ RateFollowsGrowth /\ BatchesAreGroups /\ RecurrenceIsComeback
=============================================================================
