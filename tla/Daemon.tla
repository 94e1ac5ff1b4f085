------------------------------- MODULE Daemon -------------------------------
(***************************************************************************)
(* The process noo-nood: Run, runScheduler, runPressureWatcher, the tick   *)
(* consumer and manualKicker of cmd/noo-nood/main.go, the lock of RunTick, *)
(* and main itself, from its start to its exit and the next start.         *)
(*                                                                         *)
(* What a tick does is the matter of modules AutoClean and Offload; here   *)
(* it is taken and released.  Server.Start has succeeded (InstanceLock),   *)
(* and connections that were open when the server stops stay served.       *)
(***************************************************************************)
EXTENDS Pressure

CONSTANTS
    Rpc,        \* goroutines of net/rpc that may call TriggerScan
    Consumer,   \* the goroutine that takes scheduled ticks
    Nobody,
    TrigCap     \* capacity of the pressure lane (4 in the code)

ASSUME DaemonAssumption ==
    /\ Consumer \notin Rpc /\ Nobody \notin Rpc \cup {Consumer}
    /\ TrigCap \in Nat \ {0}

Goroutine == Rpc \cup {Consumer}

VARIABLES
    phase,      \* "down", "running", "draining" (ctx done), "closing" (store closed)
    low,        \* the disk is measured and below the threshold
    buf, since, \* the pressure watcher
    daily, trig,        \* ticks waiting in the two lanes
    scheduler, watcher, \* whether these goroutines still run
    pc,         \* per goroutine that runs ticks
    trigger,    \* of the tick the consumer has taken
    holder,     \* who holds tickMu
    due,        \* history: the timer fired and no daily tick has begun since
    passed      \* history: pressure ticks taken while a daily one was waiting

lanes == <<daily, trig, passed>>
vars == <<phase, low, buf, since, daily, trig, scheduler, watcher, pc, trigger,
          holder, due, passed>>

Goto(g, l) == pc' = [pc EXCEPT ![g] = l]

Fresh ==
    /\ buf' = <<>> /\ since' = Never /\ daily' = 0 /\ trig' = 0
    /\ pc' = [g \in Goroutine |-> IF g = Consumer THEN "poll" ELSE "idle"]
    /\ trigger' = "daily" /\ holder' = Nobody /\ due' = FALSE /\ passed' = 0

Init ==
    /\ phase = "down" /\ low \in BOOLEAN
    /\ buf = <<>> /\ since = Never /\ daily = 0 /\ trig = 0
    /\ scheduler = FALSE /\ watcher = FALSE
    /\ pc = [g \in Goroutine |-> IF g = Consumer THEN "poll" ELSE "idle"]
    /\ trigger = "daily" /\ holder = Nobody /\ due = FALSE /\ passed = 0

-----------------------------------------------------------------------------
(* The process. *)

Start ==
    /\ phase = "down" /\ phase' = "running"
    /\ scheduler' = TRUE /\ watcher' = TRUE /\ Fresh /\ UNCHANGED low

Signal ==
    /\ phase = "running" /\ phase' = "draining"
    /\ UNCHANGED <<low, buf, since, lanes, scheduler, watcher, pc, trigger, holder, due>>

(* Run waits for its three goroutines, not for those of net/rpc; main then *)
(* closes the store.                                                       *)
HalfDrained == ~scheduler /\ ~watcher       \* mutant: consumerDone is not waited for
Drained     == ~scheduler /\ ~watcher /\ pc[Consumer] = "done"

RunReturns ==
    /\ phase = "draining" /\ Drained /\ phase' = "closing"
    /\ UNCHANGED <<low, buf, since, lanes, scheduler, watcher, pc, trigger, holder, due>>

(* The process is gone, with everything it had in memory. *)
Gone ==
    /\ phase' = "down" /\ scheduler' = FALSE /\ watcher' = FALSE
    /\ Fresh /\ UNCHANGED low

Exit == phase = "closing" /\ Gone
Kill == phase # "down" /\ Gone

DiskMoves ==
    /\ low' = ~low
    /\ UNCHANGED <<phase, buf, since, lanes, scheduler, watcher, pc, trigger, holder, due>>

-----------------------------------------------------------------------------
(* The two producers.  A send to a full lane drops the tick. *)

OneLane   == IF trig < TrigCap THEN 1 ELSE daily    \* mutant: no lane of its own
PostDaily == IF daily < 1 THEN daily + 1 ELSE daily

TimerFires ==
    /\ scheduler /\ daily' = PostDaily /\ due' = TRUE
    /\ UNCHANGED <<phase, low, buf, since, trig, passed, scheduler, watcher,
                   pc, trigger, holder>>

SchedulerExits ==
    /\ scheduler /\ phase = "draining" /\ scheduler' = FALSE
    /\ UNCHANGED <<phase, low, buf, since, lanes, watcher, pc, trigger, holder, due>>

PostPressure == IF trig < TrigCap THEN trig + 1 ELSE trig

Sample ==
    LET b == Pushed(buf, low) IN
    /\ watcher /\ buf' = b /\ since' = Elapsed(b, since)
    /\ trig' = IF Fires(b, since) THEN PostPressure ELSE trig
    /\ UNCHANGED <<phase, low, daily, passed, scheduler, watcher, pc, trigger, holder, due>>

WatcherExits ==
    /\ watcher /\ phase = "draining" /\ watcher' = FALSE
    /\ UNCHANGED <<phase, low, buf, since, lanes, scheduler, pc, trigger, holder, due>>

-----------------------------------------------------------------------------
(* The consumer: daily first without blocking, then whichever comes. *)

Take(t) ==
    /\ trigger' = t /\ Goto(Consumer, "lock")
    /\ IF t = "daily"
       THEN daily' = daily - 1 /\ passed' = 0 /\ UNCHANGED trig
       ELSE /\ trig' = trig - 1 /\ UNCHANGED daily
            /\ passed' = IF daily = 1 THEN passed + 1 ELSE 0
    /\ UNCHANGED <<phase, low, buf, since, scheduler, watcher, holder, due>>

Move(l) ==
    /\ Goto(Consumer, l)
    /\ UNCHANGED <<phase, low, buf, since, lanes, scheduler, watcher, trigger, holder, due>>

FairSelect  == FALSE                        \* mutant: no priority check
DailyFirst  == daily > 0

Poll ==
    /\ phase # "down" /\ pc[Consumer] = "poll"
    /\ IF DailyFirst THEN Take("daily") ELSE Move("select")

NoDone  == FALSE                            \* mutant: no ctx.Done case
CtxDone == phase = "draining"

Select ==
    /\ pc[Consumer] = "select"
    /\ \/ CtxDone /\ Move("done")
       \/ daily > 0 /\ Take("daily")
       \/ trig > 0 /\ Take("pressure")

-----------------------------------------------------------------------------
(* Ticks, of the consumer and of RPC goroutines. *)

Request(r) ==
    /\ phase # "down" /\ pc[r] = "idle" /\ Goto(r, "lock")
    /\ UNCHANGED <<phase, low, buf, since, lanes, scheduler, watcher, trigger, holder, due>>

Unguarded == TRUE                           \* mutant: no tickMu
MuFree    == holder = Nobody

Lock(g) ==
    /\ pc[g] = "lock" /\ MuFree /\ holder' = g /\ Goto(g, "tick")
    /\ due' = IF g = Consumer /\ trigger = "daily" THEN FALSE ELSE due
    /\ UNCHANGED <<phase, low, buf, since, lanes, scheduler, watcher, trigger>>

TickEnd(g) ==
    /\ pc[g] = "tick" /\ holder' = Nobody
    /\ Goto(g, IF g = Consumer THEN "poll" ELSE "idle")
    /\ UNCHANGED <<phase, low, buf, since, lanes, scheduler, watcher, trigger, due>>

-----------------------------------------------------------------------------
Next ==
    \/ Start \/ Signal \/ RunReturns \/ Exit \/ Kill \/ DiskMoves
    \/ TimerFires \/ SchedulerExits \/ Sample \/ WatcherExits
    \/ Poll \/ Select
    \/ \E r \in Rpc : Request(r)
    \/ \E g \in Goroutine : Lock(g) \/ TickEnd(g)

Spec == Init /\ [][Next]_vars

(* Goroutines run, ticks end, the sampler's ticker ticks, and sync.Mutex   *)
(* hands itself to a waiter that starves.  Nothing makes the timer fire,   *)
(* the user ask or the signal come.                                        *)
Fairness ==
    /\ WF_vars(RunReturns) /\ WF_vars(Exit)
    /\ WF_vars(SchedulerExits) /\ WF_vars(WatcherExits) /\ WF_vars(Sample)
    /\ WF_vars(Poll) /\ WF_vars(Select)
    /\ \A g \in Goroutine : SF_vars(Lock(g)) /\ WF_vars(TickEnd(g))

FairSpec == Spec /\ Fairness

-----------------------------------------------------------------------------
(* The lanes keep to their capacities, the buffer to its length.           *)
TypeOK ==
    /\ phase \in {"down", "running", "draining", "closing"} /\ low \in BOOLEAN
    /\ buf \in Samples /\ since \in 0..Never
    /\ daily \in 0..1 /\ trig \in 0..TrigCap
    /\ scheduler \in BOOLEAN /\ watcher \in BOOLEAN
    /\ pc \in [Goroutine -> {"poll", "select", "lock", "tick", "done", "idle"}]
    /\ trigger \in {"daily", "pressure"} /\ holder \in Goroutine \cup {Nobody}
    /\ due \in BOOLEAN /\ passed \in Nat

(* One tick at a time, whichever door it came through, at start, while     *)
(* serving and while the process drains (tick.go:85-87).                   *)
TicksSerialized ==
    \A g, h \in Goroutine : pc[g] = "tick" /\ pc[h] = "tick" => g = h

(* A scheduled tick never runs on a closed store: shutdown waits for it    *)
(* (main.go:272-276, 446).  RPC ticks are not waited for.                  *)
ScheduledTicksHaveStore ==
    phase = "closing" => pc[Consumer] \notin {"lock", "tick"}

(* A daily tick that waits in its lane is overtaken by one pressure tick   *)
(* at most, the one chosen when the timer fires between the priority check *)
(* and the select (main.go:252-268).                                       *)
DailyOvertakenOnce == passed <= 1

(* A daily tick that is due begins, however many pressure and manual ticks *)
(* compete with it, unless the daemon goes down (main.go:216-222).         *)
DailyServed == due ~> (~due \/ phase # "running")

(* A disk that stays low is scanned again and again, although fires may be *)
(* dropped by a full lane (main.go:210-213, watch.go:108-112).             *)
LowDiskIsScanned ==
    <>[](phase = "running" /\ low) => []<>(pc[Consumer] = "tick")

(* A daemon told to stop comes down, with ticks in both lanes, in flight   *)
(* and requested meanwhile (main.go:243-276).                              *)
ShutdownEnds == phase = "draining" ~> phase = "down"
=============================================================================
