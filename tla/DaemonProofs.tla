---------------------------- MODULE DaemonProofs ----------------------------
(***************************************************************************)
(* The safety properties of Daemon, for any lane capacity, sample window,  *)
(* cooldown and number of RPC goroutines.                                  *)
(***************************************************************************)
EXTENDS Daemon, TLAPS

(* tickMu is held by the goroutine that is in a tick. *)
Mutex == \A g \in Goroutine : pc[g] = "tick" <=> holder = g

(* The consumer has returned before the store is closed. *)
Closed == phase = "closing" => pc[Consumer] = "done"

(* After one pressure tick the consumer is bound to take the daily one. *)
Overtaken ==
    /\ passed \in {0, 1}
    /\ passed = 1 => daily = 1 /\ pc[Consumer] \in {"poll", "lock", "tick"}

DaemonInv == TypeOK /\ Mutex /\ Closed /\ Overtaken

-----------------------------------------------------------------------------
(* The sample buffer keeps to its window. *)
LEMMA SamplesAre ==
    \A b : b \in Samples <=> b \in Seq(BOOLEAN) /\ Len(b) \in 0..Window
<1>1. ASSUME NEW b \in Samples PROVE b \in Seq(BOOLEAN) /\ Len(b) \in 0..Window
  <2>1. PICK n \in 0..Window : b \in [1..n -> BOOLEAN]
    BY DEF Samples
  <2>. QED
    BY <2>1, PressureAssumption
<1>2. ASSUME NEW b \in Seq(BOOLEAN), Len(b) \in 0..Window PROVE b \in Samples
  <2>1. b \in [1..Len(b) -> BOOLEAN]
    OBVIOUS
  <2>. QED
    BY <1>2, <2>1 DEF Samples
<1>. QED
  BY <1>1, <1>2

LEMMA PushedTyped ==
    ASSUME NEW b \in Samples, NEW high \in BOOLEAN
    PROVE  Pushed(b, high) \in Samples
<1>1. b \in Seq(BOOLEAN) /\ Len(b) \in 0..Window
  BY SamplesAre
<1>2. CASE Len(b) >= Window
  <2>1. b # <<>>
    BY <1>2, PressureAssumption
  <2>2. Tail(b) \in Seq(BOOLEAN) /\ Len(Tail(b)) = Len(b) - 1
    BY <1>1, <2>1
  <2>3. Append(Tail(b), high) \in Seq(BOOLEAN) /\ Len(Append(Tail(b), high)) = Len(b)
    BY <1>1, <2>2
  <2>. QED
    BY <1>1, <1>2, <2>3, SamplesAre DEF Pushed
<1>3. CASE ~(Len(b) >= Window)
  <2>1. Append(b, high) \in Seq(BOOLEAN) /\ Len(Append(b, high)) = Len(b) + 1
    BY <1>1
  <2>2. Len(b) + 1 \in 0..Window
    BY <1>1, <1>3, PressureAssumption
  <2>3. Append(b, high) \in Samples
    BY <2>1, <2>2, SamplesAre
  <2>4. Pushed(b, high) = Append(b, high)
    BY <1>3 DEF Pushed
  <2>. QED
    BY <2>3, <2>4
<1>. QED
  BY <1>2, <1>3

LEMMA ElapsedTyped ==
    ASSUME NEW b, NEW s \in 0..Never PROVE Elapsed(b, s) \in 0..Never
BY PressureAssumption DEF Elapsed, Never

LEMMA EmptyTyped == <<>> \in Samples /\ Never \in 0..Never
<1>1. <<>> \in Samples
  <2>1. <<>> \in Seq(BOOLEAN) /\ Len(<<>>) = 0
    OBVIOUS
  <2>2. 0 \in 0..Window
    BY PressureAssumption
  <2>. QED
    BY <2>1, <2>2, SamplesAre
<1>. QED
  BY <1>1, PressureAssumption DEF Never

-----------------------------------------------------------------------------
LEMMA InitHolds == Init => DaemonInv
<1>. SUFFICES ASSUME Init PROVE DaemonInv
  OBVIOUS
<1>0. Consumer \in Goroutine /\ Nobody \notin Goroutine
  BY DaemonAssumption DEF Goroutine
<1>1. pc \in [Goroutine -> {"poll", "select", "lock", "tick", "done", "idle"}]
  BY DEF Init
<1>2. TypeOK
  <2>1. daily = 0 /\ trig = 0 /\ passed = 0 /\ holder = Nobody /\ 0 \in 0..TrigCap
    BY DaemonAssumption DEF Init
  <2>2. buf \in Samples /\ since \in 0..Never
    BY EmptyTyped DEF Init
  <2>3. /\ low \in BOOLEAN /\ scheduler \in BOOLEAN
        /\ watcher \in BOOLEAN /\ due \in BOOLEAN
    BY Zenon DEF Init, TypeOK
  <2>4. /\ phase \in {"down", "running", "draining", "closing"}
        /\ trigger \in {"daily", "pressure"}
    BY DEF Init
  <2>. QED
    BY <1>1, <2>1, <2>2, <2>3, <2>4 DEF TypeOK
<1>3. Mutex /\ Closed /\ Overtaken
  BY <1>0 DEF Init, Mutex, Closed, Overtaken
<1>. QED
  BY <1>2, <1>3 DEF DaemonInv

LEMMA FreshHolds ==
    ASSUME TypeOK, Fresh, phase' \in {"down", "running"}, low' = low,
           scheduler' \in BOOLEAN, watcher' \in BOOLEAN
    PROVE  DaemonInv'
<1>0. Consumer \in Goroutine /\ Nobody \notin Goroutine
  BY DaemonAssumption DEF Goroutine
<1>1. pc' \in [Goroutine -> {"poll", "select", "lock", "tick", "done", "idle"}]
  BY DEF Fresh
<1>2. TypeOK'
  <2>1. daily' = 0 /\ trig' = 0 /\ passed' = 0 /\ holder' = Nobody /\ 0 \in 0..TrigCap
    BY DaemonAssumption DEF Fresh
  <2>2. buf' \in Samples /\ since' \in 0..Never
    BY EmptyTyped DEF Fresh
  <2>3. /\ low' \in BOOLEAN /\ scheduler' \in BOOLEAN
        /\ watcher' \in BOOLEAN /\ due' \in BOOLEAN
    BY Zenon DEF Fresh, TypeOK
  <2>4. /\ phase' \in {"down", "running", "draining", "closing"}
        /\ trigger' \in {"daily", "pressure"}
    BY DEF Fresh
  <2>. QED
    BY <1>1, <2>1, <2>2, <2>3, <2>4 DEF TypeOK
<1>3. Mutex' /\ Closed' /\ Overtaken'
  BY <1>0 DEF Fresh, Mutex, Closed, Overtaken
<1>. QED
  BY <1>2, <1>3 DEF DaemonInv

(* Steps that touch neither the goroutines that run ticks nor the lanes,   *)
(* or only put a tick in a lane.                                           *)
LEMMA QuietStep ==
    ASSUME DaemonInv,
           \/ Signal \/ RunReturns \/ DiskMoves \/ TimerFires
           \/ SchedulerExits \/ Sample \/ WatcherExits
    PROVE  DaemonInv'
<1>. USE DaemonAssumption DEF DaemonInv, TypeOK, Mutex, Closed, Overtaken, lanes
<1>1. CASE Signal
  BY <1>1 DEF Signal
<1>2. CASE RunReturns
  BY <1>2 DEF RunReturns, Drained
<1>3. CASE DiskMoves
  BY <1>3 DEF DiskMoves
<1>4. CASE TimerFires
  BY <1>4 DEF TimerFires, PostDaily
<1>5. CASE SchedulerExits
  BY <1>5 DEF SchedulerExits
<1>6. CASE Sample
  <2>1. buf' \in Samples /\ since' \in 0..Never
    BY <1>6, PushedTyped, ElapsedTyped DEF Sample
  <2>2. trig' \in 0..TrigCap
    BY <1>6 DEF Sample, PostPressure
  <2>. QED
    BY <1>6, <2>1, <2>2 DEF Sample
<1>7. CASE WatcherExits
  BY <1>7 DEF WatcherExits
<1>. QED
  BY <1>1, <1>2, <1>3, <1>4, <1>5, <1>6, <1>7

LEMMA ConsumerStep ==
    ASSUME DaemonInv, Poll \/ Select
    PROVE  DaemonInv'
<1>. USE DaemonAssumption
     DEF DaemonInv, TypeOK, Mutex, Closed, Overtaken, lanes, Goroutine, Goto
<1>1. CASE Poll /\ DailyFirst
  BY <1>1 DEF Poll, DailyFirst, Take
<1>2. CASE Poll /\ ~DailyFirst
  BY <1>2 DEF Poll, DailyFirst, Move
<1>3. CASE Select
  <2>1. CASE CtxDone /\ Move("done")
    BY <1>3, <2>1 DEF Select, CtxDone, Move
  <2>2. CASE daily > 0 /\ Take("daily")
    BY <1>3, <2>2 DEF Select, Take
  <2>3. CASE trig > 0 /\ Take("pressure")
    BY <1>3, <2>3 DEF Select, Take
  <2>. QED
    BY <1>3, <2>1, <2>2, <2>3 DEF Select
<1>. QED
  BY <1>1, <1>2, <1>3

LEMMA TickStep ==
    ASSUME DaemonInv,
           \/ \E r \in Rpc : Request(r)
           \/ \E g \in Goroutine : Lock(g) \/ TickEnd(g)
    PROVE  DaemonInv'
<1>. USE DaemonAssumption
     DEF DaemonInv, TypeOK, Mutex, Closed, Overtaken, lanes, Goroutine, Goto
<1>1. ASSUME NEW r \in Rpc, Request(r) PROVE DaemonInv'
  BY <1>1 DEF Request
<1>2. ASSUME NEW g \in Goroutine, Lock(g) PROVE DaemonInv'
  BY <1>2 DEF Lock, MuFree
<1>3. ASSUME NEW g \in Goroutine, TickEnd(g) PROVE DaemonInv'
  BY <1>3 DEF TickEnd
<1>. QED
  BY <1>1, <1>2, <1>3

LEMMA NextHolds == DaemonInv /\ [Next]_vars => DaemonInv'
<1>1. ASSUME DaemonInv, UNCHANGED vars PROVE DaemonInv'
  BY <1>1 DEF vars, DaemonInv, TypeOK, Mutex, Closed, Overtaken
<1>2. ASSUME DaemonInv, Start PROVE DaemonInv'
  BY <1>2, FreshHolds DEF Start, DaemonInv
<1>3. ASSUME DaemonInv, Exit \/ Kill PROVE DaemonInv'
  BY <1>3, FreshHolds DEF Exit, Kill, Gone, DaemonInv
<1>. QED
  BY <1>1, <1>2, <1>3, QuietStep, ConsumerStep, TickStep DEF Next

LEMMA DaemonInvHolds == Spec => []DaemonInv
BY InitHolds, NextHolds, PTL DEF Spec

-----------------------------------------------------------------------------
(* The lanes keep to their capacities and the buffer to its window.        *)
THEOREM TypeCorrect == Spec => []TypeOK
BY DaemonInvHolds, PTL DEF DaemonInv

(* One tick at a time, for any number of RPC goroutines.                   *)
THEOREM OneTick == Spec => []TicksSerialized
<1>1. DaemonInv => TicksSerialized
  BY DEF DaemonInv, Mutex, TicksSerialized
<1>. QED
  BY <1>1, DaemonInvHolds, PTL

(* Scheduled ticks have ended when the store is closed.                    *)
THEOREM StoreOutlivesTicks == Spec => []ScheduledTicksHaveStore
<1>1. DaemonInv => ScheduledTicksHaveStore
  BY DEF DaemonInv, Closed, ScheduledTicksHaveStore
<1>. QED
  BY <1>1, DaemonInvHolds, PTL

(* A waiting daily tick is overtaken by at most one pressure tick, for any *)
(* lane capacity.                                                          *)
THEOREM DailyNext == Spec => []DailyOvertakenOnce
<1>1. DaemonInv => DailyOvertakenOnce
  BY DEF DaemonInv, Overtaken, DailyOvertakenOnce
<1>. QED
  BY <1>1, DaemonInvHolds, PTL
=============================================================================
