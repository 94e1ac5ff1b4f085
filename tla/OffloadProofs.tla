--------------------------- MODULE OffloadProofs ---------------------------
(* Proofs about Offload, for every value of its constants. *)
EXTENDS Offload, TLAPS

(* Nodes keep their shape under the operators that build them. *)
LEMMA NodeShape ==
    ASSUME NEW n \in Node
    PROVE  /\ n.data \in SUBSET Items
           /\ n.kind = "link" => n.to \in Pins /\ n = Link(n.to)
           /\ n.kind = "none" => n = Missing
           /\ n.kind = "dir" => n = Dir(n.data)
           /\ n.kind # "dir" => n.data = {}
           /\ n.kind \in {"none", "dir", "link"}
BY DEF Node, Missing, Dir, Link

LEMMA NodesTyped ==
    /\ Missing \in Node
    /\ \A S \in SUBSET Items : Dir(S) \in Node
    /\ \A p \in Pins : Link(p) \in Node
BY DEF Node

LEMMA IdleJob == Idle \in Job
<1>1. Targets # {}
  BY OffloadAssumption
<1>2. PICK t \in Targets : TRUE
  BY <1>1
<1>3. (CHOOSE u \in Targets : TRUE) \in Targets
  BY <1>2
<1>. QED
  BY <1>3 DEF Idle, Job

(* The statements on relocation_queue keep the table well formed, keep the *)
(* ids, and give a row a new status only while it is pending.              *)
LEMMA RowsTyped ==
    ASSUME NEW R, NEW rs \in Seq(R),
           R = RelocRow(Targets, Pins)
    PROVE  /\ \A t \in Targets, p \in Pins :
                 /\ InsertRow(rs, t, p) \in Seq(R)
                 /\ DOMAIN rs \subseteq DOMAIN InsertRow(rs, t, p)
           /\ \A id : MarkAttempt(rs, id) \in Seq(R)
           /\ \A id : DOMAIN MarkAttempt(rs, id) = DOMAIN rs
           /\ \A id : \A s \in RelocStatus : Resolve(rs, id, s) \in Seq(R)
           /\ \A id : \A s \in RelocStatus :
                 DOMAIN Resolve(rs, id, s) = DOMAIN rs
<1>1. ASSUME NEW t \in Targets, NEW p \in Pins
      PROVE  /\ InsertRow(rs, t, p) \in Seq(R)
             /\ DOMAIN rs \subseteq DOMAIN InsertRow(rs, t, p)
  <2>1. [target |-> t, pin |-> p, status |-> "queued", tried |-> FALSE] \in R
    BY DEF RelocRow, RelocStatus, RelocPending
  <2>. QED
    BY <2>1 DEF InsertRow
<1>2. ASSUME NEW id, NEW r \in R, id \in DOMAIN rs
      PROVE  LET new == [rs EXCEPT ![id] = r]
             IN  new \in Seq(R) /\ DOMAIN new = DOMAIN rs
  BY <1>2
<1>3. ASSUME NEW id, IsPending(rs, id)
      PROVE  /\ id \in DOMAIN rs
             /\ [rs[id] EXCEPT !.tried = TRUE] \in R
             /\ \A s \in RelocStatus : [rs[id] EXCEPT !.status = s] \in R
  <2>1. id \in DOMAIN rs /\ rs[id] \in R
    BY <1>3 DEF IsPending, ListPending
  <2>. QED
    BY <2>1 DEF RelocRow
<1>4. ASSUME NEW id
      PROVE  MarkAttempt(rs, id) \in Seq(R) /\ DOMAIN MarkAttempt(rs, id) = DOMAIN rs
  BY <1>2, <1>3 DEF MarkAttempt
<1>5. ASSUME NEW id, NEW s \in RelocStatus
      PROVE  Resolve(rs, id, s) \in Seq(R) /\ DOMAIN Resolve(rs, id, s) = DOMAIN rs
  BY <1>2, <1>3 DEF Resolve
<1>. QED
  BY <1>1, <1>4, <1>5

(* Updating a function at one point, or at one point of one of its rows.   *)
LEMMA UpdateTyped ==
    ASSUME NEW D, NEW R, NEW h \in [D -> R], NEW u \in D, NEW v \in R
    PROVE  [h EXCEPT ![u] = v] \in [D -> R]
OBVIOUS

LEMMA UpdateInnerTyped ==
    ASSUME NEW D, NEW E, NEW R, NEW h \in [D -> [E -> R]],
           NEW u \in D, NEW w \in E, NEW v \in R
    PROVE  [h EXCEPT ![u][w] = v] \in [D -> [E -> R]]
OBVIOUS

-----------------------------------------------------------------------------
(* Type correctness.  TypeOK is not inductive by itself: NextEntry reads    *)
(* the target of a row, so the ids a job holds must be ids of the table.    *)

FilesTyped == /\ src \in [Targets -> Node] /\ bak \in [Targets -> Node]
              /\ dst \in [Targets -> [Pins -> Node]]

EnvTyped   == app \subseteq Targets /\ mounted \subseteq Pins /\ conf \in Pins

TableTyped == rows \in Seq(RelocRow(Targets, Pins))

JobsTyped  ==
    /\ pinned \in [Actors -> Pins]
    /\ pc \in [Actors -> Labels] /\ job \in [Actors -> Job]
    /\ \A a \in Actors : /\ job[a].todo \subseteq DOMAIN rows
                         /\ job[a].row \in {0} \cup DOMAIN rows

HistTyped  == /\ written \in [Targets -> SUBSET Items]
              /\ late \in [Targets -> SUBSET Items]
              /\ behind \in [Targets -> SUBSET Items]

Shaped == FilesTyped /\ EnvTyped /\ TableTyped /\ JobsTyped /\ HistTyped

LEMMA ShapedTypeOK == Shaped => TypeOK
BY DEF Shaped, FilesTyped, EnvTyped, TableTyped, JobsTyped, HistTyped, TypeOK

LEMMA InitShaped == Init => Shaped
<1>. SUFFICES ASSUME Init PROVE Shaped
  OBVIOUS
<1>1. Missing \in Node /\ Dir({}) \in Node
  BY NodesTyped
<1>2. Idle \in Job /\ Idle.todo = {} /\ Idle.row = 0
  BY IdleJob DEF Idle
<1>3. FilesTyped
  BY <1>1 DEF Init, FilesTyped
<1>4. EnvTyped /\ TableTyped /\ HistTyped
  BY DEF Init, EnvTyped, TableTyped, HistTyped
<1>5. JobsTyped
  BY <1>2 DEF Init, JobsTyped, Labels
<1>. QED
  BY <1>3, <1>4, <1>5 DEF Shaped

(* What is found in the file system is made of Items.                      *)
LEMMA FilesHoldItems ==
    ASSUME FilesTyped, NEW t \in Targets
    PROVE  /\ src[t] \in Node /\ bak[t] \in Node
           /\ \A p \in Pins : dst[t][p] \in Node
           /\ src[t].data \subseteq Items /\ bak[t].data \subseteq Items
           /\ \A p \in Pins : dst[t][p].data \subseteq Items
           /\ src[t].kind = "link" => src[t].to \in Pins
           /\ Through(t) \subseteq Items
<1>1. src[t] \in Node /\ bak[t] \in Node /\ \A q \in Pins : dst[t][q] \in Node
  BY DEF FilesTyped
<1>2. /\ src[t].data \subseteq Items /\ bak[t].data \subseteq Items
      /\ \A q \in Pins : dst[t][q].data \subseteq Items
  BY <1>1, NodeShape
<1>3. src[t].kind = "link" => src[t].to \in Pins
  BY <1>1, NodeShape
<1>. QED
  BY <1>1, <1>2, <1>3 DEF Through, Via

(* The jobs stay well formed when a process takes a legal label and a job  *)
(* that points into the table, and the table keeps its ids.                *)
LEMMA JobUpdate ==
    ASSUME JobsTyped, NEW a \in Actors, NEW l \in Labels, NEW j \in Job,
           j.todo \subseteq DOMAIN rows, j.row \in {0} \cup DOMAIN rows,
           pc' = [pc EXCEPT ![a] = l], job' = [job EXCEPT ![a] = j],
           pinned' \in [Actors -> Pins],
           DOMAIN rows \subseteq DOMAIN rows'
    PROVE  JobsTyped'
<1>1. pc' \in [Actors -> Labels] /\ job' \in [Actors -> Job]
  BY DEF JobsTyped
<1>2. ASSUME NEW b \in Actors
      PROVE  /\ job'[b].todo \subseteq DOMAIN rows'
             /\ job'[b].row \in {0} \cup DOMAIN rows'
  <2>1. job'[b] = IF b = a THEN j ELSE job[b]
    BY DEF JobsTyped
  <2>2. job[b].todo \subseteq DOMAIN rows /\ job[b].row \in {0} \cup DOMAIN rows
    BY DEF JobsTyped
  <2>. QED
    BY <2>1, <2>2
<1>. QED
  BY <1>1, <1>2 DEF JobsTyped

LEMMA StepWithinJob ==
    ASSUME JobsTyped, NEW a \in Actors, NEW l \in Labels,
           pc' = [pc EXCEPT ![a] = l], job' = job, pinned' = pinned, rows' = rows
    PROVE  JobsTyped'
BY DEF JobsTyped

(* Going on to the next queue entry keeps every job within the table.      *)
LEMMA NextEntryTyped ==
    ASSUME TableTyped, JobsTyped, NEW a \in Actors, NEW j \in Job,
           j.todo \subseteq DOMAIN rows, NextEntry(a, j),
           pinned' \in [Actors -> Pins], DOMAIN rows \subseteq DOMAIN rows'
    PROVE  JobsTyped'
<1>1. CASE Goto(a, "idle") /\ job' = [job EXCEPT ![a] = Idle]
  <2>1. Idle \in Job /\ Idle.todo = {} /\ Idle.row = 0
    BY IdleJob DEF Idle
  <2>2. "idle" \in Labels
    BY DEF Labels
  <2>. QED
    BY <1>1, <2>1, <2>2, JobUpdate DEF Goto
<1>2. ASSUME NEW id \in j.todo, Goto(a, "gates"),
             job' = [job EXCEPT ![a] = [j EXCEPT !.row = id, !.todo = Visited(@, id),
                                             !.target = rows[id].target]]
      PROVE  JobsTyped'
  <2>. DEFINE k == [j EXCEPT !.row = id, !.todo = Visited(@, id),
                             !.target = rows[id].target]
  <2>1. id \in DOMAIN rows /\ id \in Nat \ {0}
    BY <1>2 DEF Job
  <2>2. rows[id] \in RelocRow(Targets, Pins)
    BY <2>1 DEF TableTyped
  <2>3. rows[id].target \in Targets
    BY <2>2 DEF RelocRow
  <2>4. /\ k \in Job /\ k.row \in {0} \cup DOMAIN rows /\ k.todo \subseteq DOMAIN rows
    BY <2>1, <2>3 DEF Job, Visited
  <2>5. job' = [job EXCEPT ![a] = k]
    BY <1>2
  <2>6. "gates" \in Labels
    BY DEF Labels
  <2>. HIDE DEF k
  <2>. QED
    BY <1>2, <2>4, <2>5, <2>6, JobUpdate DEF Goto
<1>. QED
  BY <1>1, <1>2 DEF NextEntry

(* The five statements that change the table.                              *)
LEMMA TableSteps ==
    ASSUME TableTyped
    PROVE  /\ DOMAIN rows \subseteq Nat \ {0}
           /\ \A t \in Targets, p \in Pins :
                 rows' = InsertRow(rows, t, p)
                 => TableTyped' /\ DOMAIN rows \subseteq DOMAIN rows'
           /\ \A id :
                 rows' = MarkAttempt(rows, id)
                 => TableTyped' /\ DOMAIN rows \subseteq DOMAIN rows'
           /\ \A id : \A s \in {"queued", "blocked", "applied", "cancelled"} :
                 rows' = Resolve(rows, id, s)
                 => TableTyped' /\ DOMAIN rows \subseteq DOMAIN rows'
           /\ rows' = rows => TableTyped' /\ DOMAIN rows \subseteq DOMAIN rows'
<1>. DEFINE R == RelocRow(Targets, Pins)
<1>1. rows \in Seq(R)
  BY DEF TableTyped
<1>2. {"queued", "blocked", "applied", "cancelled"} \subseteq RelocStatus
  BY DEF RelocStatus, RelocPending, RelocTerminal
<1>3. DOMAIN rows \subseteq Nat \ {0}
  <2>. HIDE DEF R
  <2>1. DOMAIN rows = 1 .. Len(rows) /\ Len(rows) \in Nat
    BY <1>1
  <2>. QED
    BY <2>1
<1>4. /\ \A t \in Targets, p \in Pins :
            /\ InsertRow(rows, t, p) \in Seq(R)
            /\ DOMAIN rows \subseteq DOMAIN InsertRow(rows, t, p)
      /\ \A id : MarkAttempt(rows, id) \in Seq(R)
      /\ \A id : DOMAIN MarkAttempt(rows, id) = DOMAIN rows
      /\ \A id : \A s \in RelocStatus : Resolve(rows, id, s) \in Seq(R)
      /\ \A id : \A s \in RelocStatus : DOMAIN Resolve(rows, id, s) = DOMAIN rows
  BY <1>1, RowsTyped
<1>. QED
  BY <1>1, <1>2, <1>3, <1>4 DEF TableTyped

LEMMA FilesStepTyped ==
    ASSUME FilesTyped, JobsTyped, NEW a \in Actors, Step(a)
    PROVE  FilesTyped'
<1>. DEFINE t == job[a].target  p == pinned[a]
<1>1. t \in Targets /\ p \in Pins
  <2>1. job[a] \in Job /\ p \in Pins
    BY DEF JobsTyped
  <2>. QED
    BY <2>1 DEF Job
<1>. DEFINE n == dst[t][p]
<1>2. /\ \/ src' = src
         \/ src' = [src EXCEPT ![t] = Missing]
         \/ src' = [src EXCEPT ![t] = bak[t]]
         \/ src' = [src EXCEPT ![t] = Link(p)]
      /\ \/ bak' = bak
         \/ bak' = [bak EXCEPT ![t] = Missing]
         \/ bak' = [bak EXCEPT ![t] = src[t]]
         \/ \E S \in SUBSET bak[t].data : bak' = [bak EXCEPT ![t] = Dir(S)]
      /\ \/ dst' = dst
         \/ dst' = [dst EXCEPT ![t][p] = Missing]
         \/ dst' = [dst EXCEPT ![t][p] = Dir(n.data)]
         \/ \E S \in SUBSET n.data : dst' = [dst EXCEPT ![t][p] = Dir(S)]
         \/ \E S \in SUBSET Through(t) :
               dst' = [dst EXCEPT ![t][p] = Dir(n.data \cup S)]
  BY DEF Step, GatesBlock, GatesPass, Mark, GuardsPass, GuardsRefuse, Offer,
         Insert, CopyStart, CopyEnd, CopyFail, Copied, Verify, Swap, MakeLink,
         CheckLink, DropBak, Restore, Rollback, DropDest, Failed, Done, Finish,
         fs, env, hist
<1>. HIDE DEF t, p
<1>3. /\ src[t] \in Node /\ bak[t] \in Node /\ n \in Node
      /\ bak[t].data \subseteq Items /\ n.data \subseteq Items
      /\ Through(t) \subseteq Items
  BY <1>1, FilesHoldItems
<1>4. /\ Missing \in Node /\ Link(p) \in Node
      /\ \A S \in SUBSET Items : Dir(S) \in Node
  BY <1>1, NodesTyped
<1>. HIDE DEF n
<1>5. src' \in [Targets -> Node]
  <2>1. src' = src \/ \E m \in Node : src' = [src EXCEPT ![t] = m]
    BY <1>2, <1>3, <1>4
  <2>. QED
    BY <2>1, <1>1 DEF FilesTyped
<1>6. bak' \in [Targets -> Node]
  <2>1. bak' = bak \/ \E m \in Node : bak' = [bak EXCEPT ![t] = m]
    BY <1>2, <1>3, <1>4
  <2>. QED
    BY <2>1, <1>1 DEF FilesTyped
<1>7. dst' \in [Targets -> [Pins -> Node]]
  <2>1. dst' = dst \/ \E m \in Node : dst' = [dst EXCEPT ![t][p] = m]
    BY <1>2, <1>3, <1>4
  <2>2. dst \in [Targets -> [Pins -> Node]]
    BY DEF FilesTyped
  <2>3. ASSUME NEW m \in Node
        PROVE  [dst EXCEPT ![t][p] = m] \in [Targets -> [Pins -> Node]]
    BY <1>1, <2>2, UpdateInnerTyped
  <2>. QED
    BY <2>1, <2>2, <2>3
<1>. QED
  BY <1>5, <1>6, <1>7 DEF FilesTyped

(* A job stays a job when an attempt is charged to it.                      *)
LEMMA MarkedJob ==
    ASSUME NEW j \in Job
    PROVE  LET k == [j EXCEPT !.attempted = @ + 1]
               m == [k EXCEPT !.invoked = @ \cup {k.row}]
           IN  /\ k \in Job /\ k.todo = j.todo /\ k.row = j.row
               /\ m \in Job /\ m.todo = j.todo /\ m.row = j.row
<1>. DEFINE k == [j EXCEPT !.attempted = @ + 1]
            m == [k EXCEPT !.invoked = @ \cup {k.row}]
<1>1. k \in Job /\ k.todo = j.todo /\ k.row = j.row
  <2>1. j.attempted + 1 \in Nat
    BY DEF Job
  <2>. QED
    BY <2>1 DEF Job
<1>2. ASSUME NEW i \in Job
      PROVE  LET n == [i EXCEPT !.invoked = @ \cup {i.row}]
             IN  n \in Job /\ n.todo = i.todo /\ n.row = i.row
  <2>1. i.invoked \cup {i.row} \in SUBSET Nat
    BY DEF Job
  <2>. QED
    BY <2>1 DEF Job
<1>3. m \in Job /\ m.todo = k.todo /\ m.row = k.row
  <2>. HIDE DEF k
  <2>. QED
    BY <1>1, <1>2
<1>. QED
  BY <1>1, <1>3

LEMMA JobsStepTyped ==
    ASSUME TableTyped, JobsTyped, NEW a \in Actors, Step(a)
    PROVE  TableTyped' /\ JobsTyped'
<1>. DEFINE j == job[a]
<1>1. /\ j \in Job /\ j.todo \subseteq DOMAIN rows /\ j.row \in {0} \cup DOMAIN rows
      /\ j.target \in Targets /\ pinned[a] \in Pins /\ pinned \in [Actors -> Pins]
  <2>1. /\ j \in Job /\ j.todo \subseteq DOMAIN rows /\ j.row \in {0} \cup DOMAIN rows
        /\ pinned[a] \in Pins /\ pinned \in [Actors -> Pins]
    BY DEF JobsTyped
  <2>. QED
    BY <2>1 DEF Job
<1>2. Idle \in Job /\ Idle.todo = {} /\ Idle.row = 0
  BY IdleJob DEF Idle
<1>3. Labels = {"idle", "gates", "mark", "guards", "offer", "insert", "failed",
                "done", "copy", "copying", "verify", "swap", "link", "check",
                "dropbak", "restore", "rollback", "dropdest"}
  BY DEF Labels, Moving
<1>4. CASE GatesBlock(a) \/ Failed(a) \/ Done(a)
  <2>1. /\ NextEntry(a, j) /\ pinned' = pinned
        /\ \E s \in {"queued", "blocked", "applied", "cancelled"} :
              rows' = Resolve(rows, j.row, s)
    BY <1>4 DEF GatesBlock, Failed, Done, Finish
  <2>. HIDE DEF j
  <2>2. TableTyped' /\ DOMAIN rows \subseteq DOMAIN rows'
    BY <2>1, TableSteps
  <2>. QED
    BY <1>1, <2>1, <2>2, NextEntryTyped
<1>5. CASE GatesPass(a)
  <2>1. /\ NextEntry(a, j) \/ (Goto(a, "mark") /\ job' = job)
        /\ rows' = rows /\ pinned' = pinned
    BY <1>5 DEF GatesPass
  <2>. HIDE DEF j
  <2>2. CASE NextEntry(a, j)
    BY <1>1, <2>1, <2>2, TableSteps, NextEntryTyped
  <2>3. CASE Goto(a, "mark") /\ job' = job
    BY <1>3, <2>1, <2>3, TableSteps, StepWithinJob DEF Goto
  <2>. QED
    BY <2>1, <2>2, <2>3
<1>6. CASE Mark(a)
  <2>. DEFINE k == [j EXCEPT !.attempted = @ + 1]
              m == [k EXCEPT !.invoked = @ \cup {k.row}]
  <2>1. /\ \/ NextEntry(a, k)
           \/ Goto(a, "guards") /\ job' = [job EXCEPT ![a] = m]
        /\ rows' = MarkAttempt(rows, k.row) /\ pinned' = pinned
    BY <1>6 DEF Mark
  <2>. HIDE DEF j
  <2>2. /\ k \in Job /\ k.todo = j.todo /\ k.row = j.row
        /\ m \in Job /\ m.todo = j.todo /\ m.row = j.row
    BY <1>1, MarkedJob
  <2>. HIDE DEF k, m
  <2>3. TableTyped' /\ DOMAIN rows \subseteq DOMAIN rows'
    BY <2>1, TableSteps
  <2>4. CASE NextEntry(a, k)
    BY <1>1, <2>1, <2>2, <2>3, <2>4, NextEntryTyped
  <2>5. CASE Goto(a, "guards") /\ job' = [job EXCEPT ![a] = m]
    BY <1>1, <1>3, <2>1, <2>2, <2>3, <2>5, JobUpdate DEF Goto
  <2>. QED
    BY <2>1, <2>4, <2>5
<1>7. CASE Insert(a) \/ Offer(a)
  <2>1. \/ pc' = [pc EXCEPT ![a] = "idle"] /\ job' = [job EXCEPT ![a] = Idle]
        \/ pc' = [pc EXCEPT ![a] = "insert"] /\ job' = job /\ rows' = rows
    BY <1>7 DEF Insert, Offer, Goto
  <2>2. /\ pinned' = pinned
        /\ rows' = rows \/ rows' = InsertRow(rows, j.target, pinned[a])
    BY <1>7 DEF Insert, Offer
  <2>. HIDE DEF j
  <2>3. TableTyped' /\ DOMAIN rows \subseteq DOMAIN rows'
    BY <1>1, <2>2, TableSteps
  <2>4. CASE pc' = [pc EXCEPT ![a] = "idle"] /\ job' = [job EXCEPT ![a] = Idle]
    BY <1>1, <1>2, <1>3, <2>2, <2>3, <2>4, JobUpdate
  <2>5. CASE pc' = [pc EXCEPT ![a] = "insert"] /\ job' = job /\ rows' = rows
    BY <1>3, <2>2, <2>3, <2>5, StepWithinJob
  <2>. QED
    BY <2>1, <2>4, <2>5
<1>8. CASE \/ GuardsPass(a) \/ GuardsRefuse(a) \/ CopyStart(a) \/ CopyEnd(a)
           \/ CopyFail(a) \/ Verify(a) \/ Swap(a) \/ MakeLink(a) \/ CheckLink(a)
           \/ DropBak(a) \/ Restore(a) \/ Rollback(a) \/ DropDest(a)
  <2>1. /\ job' = job /\ pinned' = pinned /\ rows' = rows
        /\ \E l \in Labels : pc' = [pc EXCEPT ![a] = l]
    BY <1>3, <1>8 DEF GuardsPass, GuardsRefuse, CopyStart, CopyEnd, CopyFail,
       Verify, Swap, MakeLink, CheckLink, DropBak, Restore, Rollback, DropDest, Goto
  <2>. QED
    BY <2>1, TableSteps, StepWithinJob
<1>. QED
  BY <1>4, <1>5, <1>6, <1>7, <1>8 DEF Step

LEMMA EnvironmentTyped ==
    ASSUME Shaped, Environment
    PROVE  Shaped'
<1>. USE DEF Shaped, fs, env, hist
<1>1. ASSUME NEW t \in Targets, AppToggle(t) PROVE Shaped'
  BY <1>1 DEF AppToggle, FilesTyped, EnvTyped, TableTyped, JobsTyped, HistTyped
<1>2. ASSUME NEW t \in Targets, NEW i \in Items, AppWrite(t, i) PROVE Shaped'
  <2>1. /\ src[t].kind = "link" => src[t].to \in Pins
        /\ src[t].data \cup {i} \subseteq Items
        /\ \A p \in Pins : dst[t][p].data \cup {i} \subseteq Items
    BY FilesHoldItems
  <2>2. FilesTyped'
    <3>1. \/ dst' = dst /\ \E n \in Node : src' = [src EXCEPT ![t] = n]
          \/ src' = src /\ \E p \in Pins, n \in Node : dst' = [dst EXCEPT ![t][p] = n]
      <4>1. /\ Dir(src[t].data \cup {i}) \in Node /\ Dir({i}) \in Node
            /\ \A p \in Pins : Dir(dst[t][p].data \cup {i}) \in Node
        BY <2>1, NodesTyped
      <4>2. \/ dst' = dst /\ src' = [src EXCEPT ![t] = Dir(src[t].data \cup {i})]
            \/ dst' = dst /\ src' = [src EXCEPT ![t] = Dir({i})]
            \/ /\ src' = src /\ src[t].to \in Pins
               /\ dst' = [dst EXCEPT ![t][src[t].to] = Dir(dst[t][src[t].to].data \cup {i})]
        BY <1>2, <2>1 DEF AppWrite
      <4>. QED
        BY <4>1, <4>2
    <3>2. ASSUME NEW p \in Pins, NEW n \in Node
          PROVE  [dst EXCEPT ![t][p] = n] \in [Targets -> [Pins -> Node]]
      BY UpdateInnerTyped DEF FilesTyped
    <3>3. ASSUME NEW n \in Node
          PROVE  [src EXCEPT ![t] = n] \in [Targets -> Node]
      BY DEF FilesTyped
    <3>4. bak' = bak
      BY <1>2 DEF AppWrite
    <3>5. CASE dst' = dst /\ \E n \in Node : src' = [src EXCEPT ![t] = n]
      BY <3>3, <3>4, <3>5 DEF FilesTyped
    <3>6. CASE src' = src /\ \E p \in Pins, n \in Node : dst' = [dst EXCEPT ![t][p] = n]
      <4>1. dst' \in [Targets -> [Pins -> Node]]
        BY <3>2, <3>6
      <4>. QED
        BY <4>1, <3>4, <3>6 DEF FilesTyped
    <3>. QED
      BY <3>1, <3>5, <3>6
  <2>3. HistTyped'
    BY <1>2 DEF AppWrite, HistTyped
  <2>4. EnvTyped' /\ TableTyped' /\ JobsTyped'
    BY <1>2 DEF AppWrite, EnvTyped, TableTyped, JobsTyped
  <2>. QED
    BY <2>2, <2>3, <2>4
<1>3. ASSUME NEW p \in Pins, VolumeToggle(p) \/ EditConfig(p) PROVE Shaped'
  <2>1. EnvTyped'
    BY <1>3 DEF VolumeToggle, EditConfig, EnvTyped
  <2>2. FilesTyped' /\ TableTyped' /\ JobsTyped' /\ HistTyped'
    BY <1>3 DEF VolumeToggle, EditConfig, FilesTyped, TableTyped, JobsTyped, HistTyped
  <2>. QED
    BY <2>1, <2>2
<1>4. ASSUME NEW id \in DOMAIN rows, Cancel(id) PROVE Shaped'
  <2>1. TableTyped' /\ DOMAIN rows \subseteq DOMAIN rows'
    BY <1>4, TableSteps DEF Cancel
  <2>2. FilesTyped' /\ EnvTyped' /\ HistTyped'
    BY <1>4 DEF Cancel, FilesTyped, EnvTyped, HistTyped
  <2>3. JobsTyped'
    BY <1>4, <2>1 DEF Cancel, JobsTyped
  <2>. QED
    BY <2>1, <2>2, <2>3
<1>5. ASSUME NEW a \in Actors, Crash(a) PROVE Shaped'
  <2>1. FilesTyped' /\ EnvTyped' /\ TableTyped' /\ HistTyped'
    BY <1>5 DEF Crash, FilesTyped, EnvTyped, TableTyped, HistTyped
  <2>2. /\ Idle \in Job /\ Idle.todo = {} /\ Idle.row = 0 /\ "idle" \in Labels
    BY IdleJob DEF Idle, Labels
  <2>3. pinned' \in [Actors -> Pins]
    BY <1>5 DEF Crash, JobsTyped, EnvTyped
  <2>. QED
    BY <1>5, <2>1, <2>2, <2>3, JobUpdate DEF Crash, Goto
<1>. QED
  BY <1>1, <1>2, <1>3, <1>4, <1>5 DEF Environment

LEMMA StartTyped ==
    ASSUME Shaped, NEW a \in Actors, Start(a)
    PROVE  Shaped'
<1>. USE DEF Shaped, fs, env, hist
<1>1. pinned' \in [Actors -> Pins]
  BY DEF Start, StartApply, StartPending, JobsTyped, EnvTyped
<1>2. FilesTyped' /\ EnvTyped' /\ TableTyped' /\ HistTyped' /\ rows' = rows
  BY DEF Start, StartApply, StartPending, FilesTyped, EnvTyped, TableTyped, HistTyped
<1>3. Idle \in Job /\ Idle.todo = {} /\ Idle.row = 0
  BY IdleJob DEF Idle
<1>4. ASSUME NEW t \in Targets, StartApply(a, t) PROVE JobsTyped'
  <2>. DEFINE k == [Idle EXCEPT !.target = t]
  <2>1. k \in Job /\ k.todo = {} /\ k.row = 0 /\ "guards" \in Labels
    BY <1>3 DEF Job, Labels
  <2>2. pc' = [pc EXCEPT ![a] = "guards"] /\ job' = [job EXCEPT ![a] = k]
    BY <1>4 DEF StartApply, Goto
  <2>. HIDE DEF k
  <2>. QED
    BY <1>1, <1>2, <2>1, <2>2, JobUpdate
<1>5. ASSUME NEW trigger \in {"daily", "manual"}, StartPending(a, trigger)
      PROVE  JobsTyped'
  <2>. DEFINE k == [Idle EXCEPT !.trigger = trigger, !.todo = ListPending(rows)]
  <2>1. k \in Job /\ k.todo \subseteq DOMAIN rows
    <3>1. ListPending(rows) \subseteq DOMAIN rows /\ DOMAIN rows \subseteq Nat \ {0}
      BY TableSteps DEF ListPending
    <3>2. [Idle EXCEPT !.trigger = trigger] \in Job
      BY <1>3 DEF Job
    <3>3. ASSUME NEW i \in Job
          PROVE  LET m == [i EXCEPT !.todo = ListPending(rows)]
                 IN  m \in Job /\ m.todo = ListPending(rows)
      BY <3>1 DEF Job
    <3>4. k \in Job /\ k.todo = ListPending(rows)
      BY <3>2, <3>3
    <3>. HIDE DEF k
    <3>. QED
      BY <3>1, <3>4
  <2>2. NextEntry(a, k)
    BY <1>5 DEF StartPending
  <2>. HIDE DEF k
  <2>. QED
    BY <1>1, <1>2, <2>1, <2>2, NextEntryTyped
<1>. QED
  BY <1>2, <1>4, <1>5 DEF Start

(* What is left behind lay in the copies.                                  *)
LEMMA StepBehind ==
    ASSUME FilesTyped, JobsTyped, HistTyped, NEW a \in Actors, Step(a)
    PROVE  behind' \in [Targets -> SUBSET Items]
<1>. DEFINE t == job[a].target
<1>1. \/ behind' = behind
      \/ behind' = [behind EXCEPT ![t] = @ \cup
                     (IF bak[t].kind = "link" THEN Via(t, bak[t]) ELSE {})]
  BY DEF Step, GatesBlock, GatesPass, Mark, GuardsPass, GuardsRefuse, Offer,
         Insert, CopyStart, CopyEnd, CopyFail, Verify, Swap, MakeLink,
         CheckLink, DropBak, Restore, Rollback, DropDest, Failed, Done, Finish, hist
<1>2. t \in Targets
  BY DEF JobsTyped, Job
<1>3. (IF bak[t].kind = "link" THEN Via(t, bak[t]) ELSE {}) \subseteq Items
  <2>1. bak[t] \in Node
    BY <1>2, FilesHoldItems
  <2>2. bak[t].kind = "link" => dst[t][bak[t].to].data \subseteq Items
    BY <1>2, <2>1, NodeShape, FilesHoldItems
  <2>. QED
    BY <2>2 DEF Via
<1>. HIDE DEF t
<1>. QED
  BY <1>1, <1>2, <1>3 DEF HistTyped

LEMMA StepShaped == Shaped /\ [Next]_vars => Shaped'
<1>. SUFFICES ASSUME Shaped, [Next]_vars PROVE Shaped'
  OBVIOUS
<1>1. CASE UNCHANGED vars
  BY <1>1 DEF vars, Shaped, FilesTyped, EnvTyped, TableTyped, JobsTyped, HistTyped
<1>2. CASE Environment
  BY <1>2, EnvironmentTyped
<1>3. ASSUME NEW a \in Actors, Start(a) PROVE Shaped'
  BY <1>3, StartTyped
<1>4. ASSUME NEW a \in Actors, Step(a) PROVE Shaped'
  <2>1. FilesTyped' /\ TableTyped' /\ JobsTyped'
    BY <1>4, FilesStepTyped, JobsStepTyped DEF Shaped
  <2>2. UNCHANGED <<env, written, late>>
    BY <1>4 DEF Step, GatesBlock, GatesPass, Mark, GuardsPass, GuardsRefuse, Offer,
         Insert, CopyStart, CopyEnd, CopyFail, Verify, Swap, MakeLink,
         CheckLink, DropBak, Restore, Rollback, DropDest, Failed, Done, Finish, hist
  <2>3. EnvTyped' /\ HistTyped'
    BY <1>4, <2>2, StepBehind DEF Shaped, EnvTyped, HistTyped, env
  <2>. QED
    BY <2>1, <2>3 DEF Shaped
<1>. QED
  BY <1>1, <1>2, <1>3, <1>4 DEF Next

LEMMA AlwaysShaped == Spec => []Shaped
BY InitShaped, StepShaped, PTL DEF Spec

(* The tables, files and local variables keep their shape: TypeOK holds in *)
(* every state, whatever the number of processes, targets and pins.        *)
THEOREM TypeCorrect == Spec => []TypeOK
BY ShapedTypeOK, AlwaysShaped, PTL

-----------------------------------------------------------------------------
(* Consent, for any number of processes.                                   *)

(* What a table of rows may become: ids are kept, a row keeps its target    *)
(* and pin, an attempt is not forgotten, a closed row does not change.     *)
Grown(rs, rt) ==
    /\ DOMAIN rs \subseteq DOMAIN rt
    /\ \A id \in DOMAIN rs :
          /\ rt[id].target = rs[id].target /\ rt[id].pin = rs[id].pin
          /\ rs[id].tried => rt[id].tried
          /\ rs[id].status \in RelocTerminal => rt[id] = rs[id]

LEMMA StatementsGrow ==
    ASSUME TableTyped
    PROVE  /\ Grown(rows, rows)
           /\ \A t, p : Grown(rows, InsertRow(rows, t, p))
           /\ \A id : Grown(rows, MarkAttempt(rows, id))
           /\ \A id, s : Grown(rows, Resolve(rows, id, s))
           /\ \A id : IsPending(rows, id) => MarkAttempt(rows, id)[id].tried
<1>. DEFINE R == RelocRow(Targets, Pins)
<1>1. rows \in Seq(R) /\ \A id \in DOMAIN rows : rows[id] \in R
  BY DEF TableTyped
<1>2. Grown(rows, rows)
  BY DEF Grown
<1>3. ASSUME NEW t, NEW p PROVE Grown(rows, InsertRow(rows, t, p))
  <2>. DEFINE r == [target |-> t, pin |-> p, status |-> "queued", tried |-> FALSE]
              new == Append(rows, r)
  <2>1. /\ DOMAIN rows \subseteq DOMAIN new
        /\ \A id \in DOMAIN rows : new[id] = rows[id]
    <3>. HIDE DEF R, r
    <3>. QED
      BY <1>1
  <2>2. new = InsertRow(rows, t, p)
    BY DEF InsertRow
  <2>. HIDE DEF new
  <2>. QED
    BY <2>1, <2>2 DEF Grown
<1>4. ASSUME NEW id, IsPending(rows, id), NEW r,
             r.target = rows[id].target, r.pin = rows[id].pin,
             rows[id].tried => r.tried
      PROVE  Grown(rows, [rows EXCEPT ![id] = r])
  <2>1. id \in DOMAIN rows /\ rows[id].status \notin RelocTerminal
    BY <1>4 DEF IsPending, ListPending, RelocPending, RelocTerminal
  <2>. HIDE DEF R
  <2>. QED
    BY <1>4, <2>1 DEF Grown
<1>5. ASSUME NEW id, NEW s
      PROVE  /\ Grown(rows, Resolve(rows, id, s))
             /\ Grown(rows, MarkAttempt(rows, id))
             /\ IsPending(rows, id) => MarkAttempt(rows, id)[id].tried
  <2>1. CASE ~IsPending(rows, id)
    BY <1>2, <2>1 DEF Resolve, MarkAttempt
  <2>2. CASE IsPending(rows, id)
    <3>1. id \in DOMAIN rows /\ rows[id] \in R
      BY <1>1, <2>2 DEF IsPending, ListPending
    <3>. DEFINE r == [rows[id] EXCEPT !.status = s]
                m == [rows[id] EXCEPT !.tried = TRUE]
    <3>2. /\ r.target = rows[id].target /\ r.pin = rows[id].pin
          /\ r.tried = rows[id].tried
          /\ m.target = rows[id].target /\ m.pin = rows[id].pin /\ m.tried = TRUE
      BY <3>1 DEF RelocRow
    <3>3. /\ Resolve(rows, id, s) = [rows EXCEPT ![id] = r]
          /\ MarkAttempt(rows, id) = [rows EXCEPT ![id] = m]
      BY <2>2 DEF Resolve, MarkAttempt
    <3>. HIDE DEF r, m
    <3>4. Grown(rows, [rows EXCEPT ![id] = r])
      BY <1>4, <2>2, <3>2
    <3>5. Grown(rows, [rows EXCEPT ![id] = m])
      BY <1>4, <2>2, <3>2
    <3>. QED
      BY <3>1, <3>2, <3>3, <3>4, <3>5
  <2>. QED
    BY <2>1, <2>2
<1>. QED
  BY <1>2, <1>3, <1>5

LEMMA RowsGrow ==
    ASSUME TableTyped, [Next]_vars
    PROVE  Grown(rows, rows')
<1>1. \/ rows' = rows
      \/ \E t, p : rows' = InsertRow(rows, t, p)
      \/ \E id : rows' = MarkAttempt(rows, id)
      \/ \E id, s : rows' = Resolve(rows, id, s)
  <2>1. CASE UNCHANGED vars
    BY <2>1 DEF vars
  <2>2. CASE Environment
    BY <2>2 DEF Environment, AppToggle, AppWrite, VolumeToggle, EditConfig, Cancel, Crash
  <2>3. ASSUME NEW a \in Actors, Start(a) PROVE rows' = rows
    BY <2>3 DEF Start, StartApply, StartPending
  <2>4. ASSUME NEW a \in Actors, Step(a)
        PROVE  \/ rows' = rows
               \/ \E t, p : rows' = InsertRow(rows, t, p)
               \/ \E id : rows' = MarkAttempt(rows, id)
               \/ \E id, s : rows' = Resolve(rows, id, s)
    BY <2>4 DEF Step, GatesBlock, GatesPass, Mark, GuardsPass, GuardsRefuse, Offer,
         Insert, CopyStart, CopyEnd, CopyFail, Verify, Swap, MakeLink, CheckLink,
         DropBak, Restore, Rollback, DropDest, Failed, Done, Finish
  <2>. QED
    BY <2>1, <2>2, <2>3, <2>4 DEF Next
<1>. QED
  BY <1>1, StatementsGrow

(* The inductive part: from the gates on, the row a job works on is the    *)
(* row of its target; from the attempt mark on its pin is the one in       *)
(* force; from the guards on the attempt is recorded.                      *)
Consented(a) ==
    LET j == job[a]  r == rows[j.row]  at(L) == pc[a] \in L IN
    /\ at({"gates", "mark"}) => j.row # 0
    /\ j.row # 0 /\ at({"gates", "mark", "guards"} \cup Moving) => r.target = j.target
    /\ j.row # 0 /\ at({"mark", "guards"} \cup Moving) => r.pin = pinned[a]
    /\ j.row # 0 /\ at({"guards"} \cup Moving) => r.tried

(* A daily run that has called Apply has been charged for it, and is       *)
(* charged nothing when it goes to mark an attempt.                        *)
Frugal(a) ==
    LET j == job[a] IN
    j.trigger = "daily" =>
       /\ j.invoked # {} => j.attempted >= 1
       /\ pc[a] = "mark" => j.attempted = 0
       /\ \A x, y \in j.invoked : x = y

Ledger == \A a \in Actors : Consented(a) /\ Frugal(a)

LEMMA InitLedger == Init => Ledger
<1>. SUFFICES ASSUME Init, NEW a \in Actors PROVE Consented(a) /\ Frugal(a)
  BY DEF Ledger
<1>1. pc[a] = "idle" /\ job[a] = Idle
  BY DEF Init
<1>. QED
  BY <1>1 DEF Consented, Frugal, Idle, Moving

(* A process that does not move keeps its part of the ledger.              *)
LEMMA BystanderLedger ==
    ASSUME JobsTyped, Grown(rows, rows'), NEW b \in Actors,
           pc'[b] = pc[b], job'[b] = job[b], pinned'[b] = pinned[b],
           Consented(b), Frugal(b)
    PROVE  Consented(b)' /\ Frugal(b)'
<1>1. Frugal(b)'
  BY DEF Frugal
<1>2. job[b].row # 0 => job[b].row \in DOMAIN rows
  BY DEF JobsTyped
<1>3. Consented(b)'
  BY <1>2 DEF Consented, Grown
<1>. QED
  BY <1>1, <1>3

(* A process that goes on within its job, to a label where no more is      *)
(* claimed than before.                                                    *)
LEMMA AdvanceLedger ==
    ASSUME JobsTyped, Grown(rows, rows'), NEW a \in Actors,
           job' = job, pinned' = pinned, pc'[a] # "mark", pc'[a] # "gates",
           \/ pc'[a] \notin {"guards"} \cup Moving
           \/ pc[a] \in {"guards"} \cup Moving,
           Consented(a), Frugal(a)
    PROVE  Consented(a)' /\ Frugal(a)'
<1>1. Frugal(a)'
  BY DEF Frugal
<1>2. job[a].row # 0 => job[a].row \in DOMAIN rows
  BY DEF JobsTyped
<1>3. Consented(a)'
  BY <1>2 DEF Consented, Grown
<1>. QED
  BY <1>1, <1>3

LEMMA NextEntryLedger ==
    ASSUME TableTyped, JobsTyped, Grown(rows, rows'), NEW a \in Actors,
           NEW j \in Job, j.todo \subseteq DOMAIN rows, NextEntry(a, j),
           j.trigger = "daily" => /\ j.invoked # {} => j.attempted >= 1
                                  /\ \A x, y \in j.invoked : x = y
    PROVE  Consented(a)' /\ Frugal(a)'
<1>1. CASE Goto(a, "idle") /\ job' = [job EXCEPT ![a] = Idle]
  <2>1. pc'[a] = "idle" /\ job'[a] = Idle
    BY <1>1 DEF JobsTyped, Goto
  <2>. QED
    BY <2>1 DEF Consented, Frugal, Idle, Moving
<1>2. ASSUME NEW id \in j.todo, Goto(a, "gates"),
             job' = [job EXCEPT ![a] = [j EXCEPT !.row = id, !.todo = Visited(@, id),
                                             !.target = rows[id].target]]
      PROVE  Consented(a)' /\ Frugal(a)'
  <2>. DEFINE k == [j EXCEPT !.row = id, !.todo = Visited(@, id),
                             !.target = rows[id].target]
  <2>1. /\ k.row = id /\ k.target = rows[id].target /\ k.trigger = j.trigger
        /\ k.attempted = j.attempted /\ k.invoked = j.invoked
    BY DEF Job
  <2>2. pc'[a] = "gates" /\ job'[a] = k
    BY <1>2 DEF JobsTyped, Goto
  <2>. HIDE DEF k
  <2>3. id \in DOMAIN rows /\ id # 0
    BY <1>2 DEF Job
  <2>4. rows'[id].target = rows[id].target
    BY <2>3 DEF Grown
  <2>5. Consented(a)'
    BY <2>1, <2>2, <2>3, <2>4 DEF Consented, Moving
  <2>6. Frugal(a)'
    BY <2>1, <2>2 DEF Frugal
  <2>. QED
    BY <2>5, <2>6
<1>. QED
  BY <1>1, <1>2 DEF NextEntry

LEMMA StepLedger ==
    ASSUME TableTyped, JobsTyped, Grown(rows, rows'), NEW a \in Actors,
           Step(a), Consented(a), Frugal(a)
    PROVE  Consented(a)' /\ Frugal(a)'
<1>. DEFINE j == job[a]
<1>1. /\ j \in Job /\ j.todo \subseteq DOMAIN rows /\ j.row \in {0} \cup DOMAIN rows
      /\ pc \in [Actors -> Labels] /\ job \in [Actors -> Job]
      /\ pinned \in [Actors -> Pins]
  BY DEF JobsTyped
<1>2. j.trigger = "daily" => /\ j.invoked # {} => j.attempted >= 1
                             /\ pc[a] = "mark" => j.attempted = 0
                             /\ \A x, y \in j.invoked : x = y
  BY DEF Frugal
<1>3. j.attempted \in Nat
  BY <1>1 DEF Job
<1>4. CASE GatesBlock(a) \/ Failed(a) \/ Done(a)
  <2>1. NextEntry(a, j)
    BY <1>4 DEF GatesBlock, Failed, Done, Finish
  <2>. HIDE DEF j
  <2>. QED
    BY <1>1, <1>2, <2>1, NextEntryLedger
<1>5. CASE GatesPass(a)
  <2>1. /\ rows[j.row].pin = pinned[a]
        /\ IF BudgetSpent(j) THEN NextEntry(a, j)
           ELSE Goto(a, "mark") /\ job' = job
        /\ rows' = rows /\ pinned' = pinned /\ pc[a] = "gates"
    BY <1>5 DEF GatesPass, GatesClear, PinUnchanged
  <2>2. CASE BudgetSpent(j)
    <3>1. NextEntry(a, j)
      BY <2>1, <2>2
    <3>. HIDE DEF j
    <3>. QED
      BY <1>1, <1>2, <3>1, NextEntryLedger
  <2>3. CASE ~BudgetSpent(j)
    <3>1. pc'[a] = "mark" /\ job'[a] = j /\ pinned'[a] = pinned[a]
      BY <1>1, <2>1, <2>3 DEF Goto
    <3>2. j.trigger = "daily" => j.attempted = 0
      BY <1>3, <2>3 DEF BudgetSpent
    <3>3. Frugal(a)'
      BY <1>2, <3>1, <3>2 DEF Frugal
    <3>4. Consented(a)'
      BY <2>1, <3>1 DEF Consented, Moving
    <3>. QED
      BY <3>3, <3>4
  <2>. QED
    BY <2>2, <2>3
<1>6. CASE Mark(a)
  <2>. DEFINE k == [j EXCEPT !.attempted = @ + 1]
              m == [k EXCEPT !.invoked = @ \cup {k.row}]
  <2>1. /\ k \in Job /\ k.todo = j.todo /\ k.row = j.row
        /\ m \in Job /\ m.todo = j.todo /\ m.row = j.row
    BY <1>1, MarkedJob
  <2>2. /\ k.trigger = j.trigger /\ k.target = j.target
        /\ k.attempted = j.attempted + 1 /\ k.invoked = j.invoked
        /\ m.trigger = j.trigger /\ m.target = j.target
        /\ m.attempted = j.attempted + 1 /\ m.invoked = j.invoked \cup {j.row}
    <3>. HIDE DEF j
    <3>1. /\ k.trigger = j.trigger /\ k.target = j.target
          /\ k.attempted = j.attempted + 1 /\ k.invoked = j.invoked
      BY <1>1 DEF Job
    <3>2. k \in Job
      BY <2>1
    <3>. HIDE DEF k
    <3>3. /\ m.trigger = k.trigger /\ m.target = k.target
          /\ m.attempted = k.attempted /\ m.invoked = k.invoked \cup {k.row}
      BY <3>2 DEF Job
    <3>. QED
      BY <2>1, <3>1, <3>3
  <2>3. /\ pc[a] = "mark" /\ rows' = MarkAttempt(rows, j.row) /\ pinned' = pinned
        /\ IF IsPending(rows, j.row)
           THEN Goto(a, "guards") /\ job' = [job EXCEPT ![a] = m]
           ELSE NextEntry(a, k)
    <3>1. k.row = j.row
      BY <2>1
    <3>2. /\ pc[a] = "mark" /\ rows' = MarkAttempt(rows, k.row) /\ pinned' = pinned
          /\ IF IsPending(rows, k.row)
             THEN Goto(a, "guards") /\ job' = [job EXCEPT ![a] = m]
             ELSE NextEntry(a, k)
      BY <1>6 DEF Mark
    <3>. QED
      BY <3>1, <3>2
  <2>. HIDE DEF k, m
  <2>4. CASE ~IsPending(rows, j.row)
    <3>1. NextEntry(a, k)
      BY <2>3, <2>4
    <3>2. k.trigger = "daily" => /\ k.invoked # {} => k.attempted >= 1
                                 /\ \A x, y \in k.invoked : x = y
      BY <1>2, <1>3, <2>2
    <3>. QED
      BY <1>1, <2>1, <3>1, <3>2, NextEntryLedger
  <2>5. CASE IsPending(rows, j.row)
    <3>1. pc'[a] = "guards" /\ job'[a] = m /\ pinned'[a] = pinned[a]
      BY <1>1, <2>3, <2>5 DEF Goto
    <3>2. /\ j.row \in DOMAIN rows /\ j.row # 0
          /\ rows[j.row].target = j.target /\ rows[j.row].pin = pinned[a]
      BY <2>3, <2>5 DEF Consented, IsPending, ListPending
    <3>3. rows'[j.row].tried
      BY <2>3, <2>5, StatementsGrow
    <3>4. Consented(a)'
      BY <2>1, <2>2, <3>1, <3>2, <3>3 DEF Consented, Grown, Moving
    <3>5. j.trigger = "daily" => m.invoked = {j.row} /\ m.attempted >= 1
      BY <1>2, <1>3, <2>2, <2>3
    <3>6. Frugal(a)'
      BY <2>2, <3>1, <3>5 DEF Frugal
    <3>. QED
      BY <3>4, <3>6
  <2>. QED
    BY <2>4, <2>5
<1>7. CASE Offer(a) \/ Insert(a)
  <2>1. CASE pc' = [pc EXCEPT ![a] = "idle"] /\ job' = [job EXCEPT ![a] = Idle]
    <3>1. pc'[a] = "idle" /\ job'[a] = Idle
      BY <1>1, <2>1
    <3>. QED
      BY <3>1 DEF Consented, Frugal, Idle, Moving
  <2>2. CASE pc' = [pc EXCEPT ![a] = "insert"] /\ job' = job /\ pinned' = pinned
    <3>1. pc'[a] = "insert"
      BY <1>1, <2>2
    <3>. QED
      BY <2>2, <3>1, AdvanceLedger DEF Moving
  <2>. QED
    BY <1>7, <2>1, <2>2 DEF Offer, Insert, Goto
<1>8. CASE \/ GuardsPass(a) \/ GuardsRefuse(a) \/ CopyStart(a) \/ CopyEnd(a)
           \/ CopyFail(a) \/ Verify(a) \/ Swap(a) \/ MakeLink(a) \/ CheckLink(a)
           \/ DropBak(a) \/ Restore(a) \/ Rollback(a) \/ DropDest(a)
  <2>1. /\ job' = job /\ pinned' = pinned /\ pc[a] \in {"guards"} \cup Moving
        /\ \E l \in Moving \cup {"failed", "done", "offer"} : pc' = [pc EXCEPT ![a] = l]
    BY <1>8 DEF GuardsPass, GuardsRefuse, CopyStart, CopyEnd, CopyFail, Moving,
       Verify, Swap, MakeLink, CheckLink, DropBak, Restore, Rollback, DropDest, Goto
  <2>2. pc'[a] \in Moving \cup {"failed", "done", "offer"}
    BY <1>1, <2>1
  <2>. QED
    BY <2>1, <2>2, AdvanceLedger DEF Moving
<1>. QED
  BY <1>4, <1>5, <1>6, <1>7, <1>8 DEF Step

(* A process changes only its own label, job and pin.                      *)
LEMMA OthersUntouched ==
    ASSUME JobsTyped, NEW a \in Actors, Start(a) \/ Step(a) \/ Crash(a),
           NEW b \in Actors, b # a
    PROVE  pc'[b] = pc[b] /\ job'[b] = job[b] /\ pinned'[b] = pinned[b]
<1>1. \E l : pc' = [pc EXCEPT ![a] = l]
  BY DEF Start, StartApply, StartPending, Crash, Step, GatesBlock, GatesPass, Mark,
         GuardsPass, GuardsRefuse, Offer, Insert, CopyStart, CopyEnd, CopyFail,
         Verify, Swap, MakeLink, CheckLink, DropBak, Restore, Rollback, DropDest,
         Failed, Done, Finish, NextEntry, Goto
<1>2. job' = job \/ \E j : job' = [job EXCEPT ![a] = j]
  BY DEF Start, StartApply, StartPending, Crash, Step, GatesBlock, GatesPass, Mark,
         GuardsPass, GuardsRefuse, Offer, Insert, CopyStart, CopyEnd, CopyFail,
         Verify, Swap, MakeLink, CheckLink, DropBak, Restore, Rollback, DropDest,
         Failed, Done, Finish, NextEntry
<1>3. pinned' = pinned \/ \E p : pinned' = [pinned EXCEPT ![a] = p]
  BY DEF Start, StartApply, StartPending, Crash, Step, GatesBlock, GatesPass, Mark,
         GuardsPass, GuardsRefuse, Offer, Insert, CopyStart, CopyEnd, CopyFail,
         Verify, Swap, MakeLink, CheckLink, DropBak, Restore, Rollback, DropDest,
         Failed, Done, Finish
<1>. QED
  BY <1>1, <1>2, <1>3 DEF JobsTyped

LEMMA StartLedger ==
    ASSUME Shaped, NEW a \in Actors, Start(a), Grown(rows, rows')
    PROVE  Consented(a)' /\ Frugal(a)'
<1>1. TableTyped /\ JobsTyped
  BY DEF Shaped
<1>2. Idle \in Job /\ Idle.todo = {} /\ Idle.row = 0
  BY IdleJob DEF Idle
<1>3. ASSUME NEW t \in Targets, StartApply(a, t) PROVE Consented(a)' /\ Frugal(a)'
  <2>1. pc'[a] = "guards" /\ job'[a] = [Idle EXCEPT !.target = t]
    BY <1>1, <1>3 DEF StartApply, Goto, JobsTyped
  <2>2. job'[a].row = 0 /\ job'[a].trigger = "apply"
    BY <2>1 DEF Idle
  <2>. QED
    BY <2>1, <2>2 DEF Consented, Frugal
<1>4. ASSUME NEW trigger \in {"daily", "manual"}, StartPending(a, trigger)
      PROVE  Consented(a)' /\ Frugal(a)'
  <2>. DEFINE k == [Idle EXCEPT !.trigger = trigger, !.todo = ListPending(rows)]
  <2>1. k \in Job /\ k.todo \subseteq DOMAIN rows /\ k.invoked = {}
    <3>1. ListPending(rows) \subseteq DOMAIN rows /\ DOMAIN rows \subseteq Nat \ {0}
      BY <1>1, TableSteps DEF ListPending
    <3>2. [Idle EXCEPT !.trigger = trigger] \in Job
      BY <1>2 DEF Job
    <3>3. ASSUME NEW i \in Job
          PROVE  LET m == [i EXCEPT !.todo = ListPending(rows)]
                 IN  m \in Job /\ m.todo = ListPending(rows)
      BY <3>1 DEF Job
    <3>4. k \in Job /\ k.todo = ListPending(rows)
      BY <3>2, <3>3
    <3>5. k.invoked = {}
      BY DEF Idle
    <3>. HIDE DEF k
    <3>. QED
      BY <3>1, <3>4, <3>5
  <2>2. NextEntry(a, k)
    BY <1>4 DEF StartPending
  <2>. HIDE DEF k
  <2>. QED
    BY <1>1, <2>1, <2>2, NextEntryLedger
<1>. QED
  BY <1>3, <1>4 DEF Start

LEMMA NextLedger == Shaped /\ Ledger /\ [Next]_vars => Ledger'
<1>. SUFFICES ASSUME Shaped, Ledger, [Next]_vars, NEW b \in Actors
              PROVE  Consented(b)' /\ Frugal(b)'
  BY DEF Ledger
<1>1. TableTyped /\ JobsTyped /\ Grown(rows, rows') /\ Consented(b) /\ Frugal(b)
  BY RowsGrow DEF Shaped, Ledger
<1>2. CASE UNCHANGED <<pc, job, pinned>>
  BY <1>1, <1>2, BystanderLedger
<1>3. ASSUME NEW a \in Actors, Start(a) \/ Step(a) \/ Crash(a)
      PROVE  Consented(b)' /\ Frugal(b)'
  <2>1. CASE b # a
    BY <1>1, <1>3, <2>1, OthersUntouched, BystanderLedger
  <2>2. CASE b = a /\ Start(a)
    BY <1>1, <2>2, StartLedger
  <2>3. CASE b = a /\ Step(a)
    BY <1>1, <2>3, StepLedger
  <2>4. CASE b = a /\ Crash(a)
    <3>1. pc'[a] = "idle" /\ job'[a] = Idle
      BY <1>1, <2>4 DEF Crash, Goto, JobsTyped
    <3>. QED
      BY <2>4, <3>1 DEF Consented, Frugal, Idle, Moving
  <2>. QED
    BY <1>3, <2>1, <2>2, <2>3, <2>4
<1>4. \/ UNCHANGED <<pc, job, pinned>>
      \/ \E a \in Actors : Start(a) \/ Step(a) \/ Crash(a)
  <2>1. UNCHANGED vars => UNCHANGED <<pc, job, pinned>>
    BY DEF vars
  <2>2. ASSUME Environment
        PROVE  \/ UNCHANGED <<pc, job, pinned>> \/ \E a \in Actors : Crash(a)
    BY <2>2 DEF Environment, AppToggle, AppWrite, VolumeToggle, EditConfig, Cancel
  <2>. QED
    BY <2>1, <2>2 DEF Next
<1>. QED
  BY <1>2, <1>3, <1>4

LEMMA AlwaysLedger == Spec => [](Shaped /\ Ledger)
<1>1. Init => Shaped /\ Ledger
  BY InitShaped, InitLedger
<1>2. Shaped /\ Ledger /\ [Next]_vars => (Shaped /\ Ledger)'
  BY StepShaped, NextLedger
<1>. QED
  BY <1>1, <1>2, PTL DEF Spec

(* MovesAreConsented for any number of processes, rows, pins and targets:  *)
(* whoever relocates an asset for a queue row, daemon or CLI, holds the    *)
(* pin the user consented to and has recorded the attempt (gates 0 and     *)
(* MarkRelocationAttempt of recheckOne, pending.go:160-233).               *)
THEOREM Consent == Spec => []MovesAreConsented
<1>1. Shaped /\ Ledger => MovesAreConsented
  <2>. SUFFICES ASSUME Ledger, NEW a \in Actors, pc[a] \in Moving, job[a].row # 0
                PROVE  /\ rows[job[a].row].pin = pinned[a]
                       /\ rows[job[a].row].target = job[a].target
                       /\ rows[job[a].row].tried
    BY DEF MovesAreConsented
  <2>. QED
    BY DEF Ledger, Consented
<1>. QED
  BY <1>1, AlwaysLedger, PTL

(* OneApplyPerDailyRun for every queue: the budget of RunPending charges   *)
(* an attempt before Apply runs (pending.go:167-183).                      *)
THEOREM DailyBudget == Spec => []OneApplyPerDailyRun
<1>1. Shaped /\ Ledger => OneApplyPerDailyRun
  BY DEF Ledger, Frugal, OneApplyPerDailyRun
<1>. QED
  BY <1>1, AlwaysLedger, PTL

LEMMA NextEntryInvokes ==
    ASSUME JobsTyped, NEW a \in Actors, NEW j \in Job, NextEntry(a, j)
    PROVE  job'[a].invoked \subseteq j.invoked
<1>1. CASE job' = [job EXCEPT ![a] = Idle]
  BY <1>1 DEF JobsTyped, Idle
<1>2. ASSUME NEW id \in j.todo,
             job' = [job EXCEPT ![a] = [j EXCEPT !.row = id, !.todo = Visited(@, id),
                                             !.target = rows[id].target]]
      PROVE  job'[a].invoked = j.invoked
  <2>. DEFINE k == [j EXCEPT !.row = id, !.todo = Visited(@, id),
                             !.target = rows[id].target]
  <2>1. k.invoked = j.invoked
    BY DEF Job
  <2>2. job'[a] = k
    BY <1>2 DEF JobsTyped
  <2>. HIDE DEF k
  <2>. QED
    BY <2>1, <2>2
<1>. QED
  BY <1>1, <1>2 DEF NextEntry

(* Apply is called for no row but one that is pending at that moment.      *)
LEMMA ApplyOnlyWhenPending ==
    ASSUME TableTyped, JobsTyped, [Next]_vars, NEW b \in Actors,
           NEW id \in job'[b].invoked, ~IsPending(rows, id)
    PROVE  id \in job[b].invoked
<1>1. CASE job' = job
  BY <1>1
<1>2. ASSUME NEW a \in Actors, Start(a) \/ Step(a) \/ Crash(a)
      PROVE  id \in job[b].invoked
  <2>1. CASE b # a
    BY <1>2, <2>1, OthersUntouched
  <2>2. CASE b = a /\ job'[a].invoked = {}
    BY <2>2
  <2>3. CASE b = a /\ NextEntry(a, job[a])
    <3>1. job[a] \in Job
      BY DEF JobsTyped
    <3>. QED
      BY <2>3, <3>1, NextEntryInvokes
  <2>4. CASE b = a /\ Mark(a)
    <3>. DEFINE j == job[a]
                k == [j EXCEPT !.attempted = @ + 1]
                m == [k EXCEPT !.invoked = @ \cup {k.row}]
    <3>1. j \in Job
      BY DEF JobsTyped
    <3>2. IF IsPending(rows, k.row) THEN job' = [job EXCEPT ![a] = m] ELSE NextEntry(a, k)
      BY <2>4 DEF Mark
    <3>3. k \in Job /\ k.row = j.row
      <4>. HIDE DEF j
      <4>. QED
        BY <3>1, MarkedJob
    <3>4. k.invoked = j.invoked
      <4>. HIDE DEF j
      <4>. QED
        BY <3>1 DEF Job
    <3>. HIDE DEF k
    <3>5. m.invoked = k.invoked \cup {k.row}
      BY <3>3 DEF Job
    <3>6. CASE IsPending(rows, k.row)
      <4>1. job'[a] = m
        BY <3>2, <3>6 DEF JobsTyped
      <4>. HIDE DEF m, j
      <4>2. id \in k.invoked \cup {k.row}
        BY <4>1, <3>5, <2>4
      <4>. QED
        BY <4>2, <3>4, <3>6, <2>4 DEF j
    <3>7. CASE ~IsPending(rows, k.row)
      <4>1. job'[a].invoked \subseteq k.invoked
        BY <3>2, <3>3, <3>7, NextEntryInvokes
      <4>. QED
        BY <4>1, <3>4, <2>4
    <3>. QED
      BY <3>6, <3>7
  <2>5. ASSUME Start(a) PROVE job'[a].invoked = {}
    <3>1. ASSUME NEW t, StartApply(a, t) PROVE job'[a].invoked = {}
      BY <3>1 DEF StartApply, JobsTyped, Idle
    <3>2. ASSUME NEW trigger \in {"daily", "manual"}, StartPending(a, trigger)
          PROVE  job'[a].invoked = {}
      <4>. DEFINE k == [Idle EXCEPT !.trigger = trigger, !.todo = ListPending(rows)]
      <4>1. NextEntry(a, k) /\ k.invoked = {}
        BY <3>2 DEF StartPending, Idle
      <4>2. k \in Job
        <5>1. Idle \in Job /\ ListPending(rows) \subseteq Nat \ {0}
          BY IdleJob, TableSteps DEF ListPending
        <5>2. [Idle EXCEPT !.trigger = trigger] \in Job
          BY <5>1 DEF Job
        <5>3. ASSUME NEW i \in Job PROVE [i EXCEPT !.todo = ListPending(rows)] \in Job
          BY <5>1 DEF Job
        <5>. QED
          BY <5>2, <5>3
      <4>. HIDE DEF k
      <4>. QED
        BY <4>1, <4>2, NextEntryInvokes
    <3>. QED
      BY <2>5, <3>1, <3>2 DEF Start
  <2>6. ASSUME Crash(a) PROVE job'[a].invoked = {}
    BY <2>6 DEF Crash, JobsTyped, Idle
  <2>7. ASSUME Step(a)
        PROVE  \/ job' = job \/ Mark(a) \/ NextEntry(a, job[a])
               \/ job' = [job EXCEPT ![a] = Idle]
    BY <2>7 DEF Step, GatesBlock, GatesPass, GuardsPass, GuardsRefuse, Offer, Insert,
         CopyStart, CopyEnd, CopyFail, Verify, Swap, MakeLink, CheckLink, DropBak,
         Restore, Rollback, DropDest, Failed, Done, Finish
  <2>8. job' = [job EXCEPT ![a] = Idle] => job'[a].invoked = {}
    BY DEF JobsTyped, Idle
  <2>. QED
    BY <1>1, <1>2, <2>1, <2>2, <2>3, <2>4, <2>5, <2>6, <2>7, <2>8
<1>3. job' = job \/ \E a \in Actors : Start(a) \/ Step(a) \/ Crash(a)
  <2>1. UNCHANGED vars => job' = job
    BY DEF vars
  <2>2. ASSUME Environment PROVE job' = job \/ \E a \in Actors : Crash(a)
    BY <2>2 DEF Environment, AppToggle, AppWrite, VolumeToggle, EditConfig, Cancel
  <2>. QED
    BY <2>1, <2>2 DEF Next
<1>. QED
  BY <1>1, <1>2, <1>3

(* ClosedRowsStayClosed: no interleaving of a cancel, two runs over the    *)
(* same rows and a crash changes a closed row or starts a move for it.     *)
THEOREM RowsCloseOnce == Spec => ClosedRowsStayClosed
<1>. DEFINE A == \A id \in DOMAIN rows : rows[id].status \in RelocTerminal =>
          /\ rows'[id] = rows[id]
          /\ \A a \in Actors : id \in job'[a].invoked => id \in job[a].invoked
<1>1. Shaped /\ [Next]_vars => A
  <2>. SUFFICES ASSUME Shaped, [Next]_vars, NEW id \in DOMAIN rows,
                       rows[id].status \in RelocTerminal
                PROVE  /\ rows'[id] = rows[id]
                       /\ \A a \in Actors :
                             id \in job'[a].invoked => id \in job[a].invoked
    OBVIOUS
  <2>1. TableTyped /\ JobsTyped
    BY DEF Shaped
  <2>2. rows'[id] = rows[id]
    BY <2>1, RowsGrow DEF Grown
  <2>3. ~IsPending(rows, id)
    BY DEF IsPending, ListPending, RelocPending, RelocTerminal
  <2>4. ASSUME NEW a \in Actors, id \in job'[a].invoked
        PROVE  id \in job[a].invoked
    BY <2>1, <2>3, <2>4, ApplyOnlyWhenPending
  <2>. QED
    BY <2>2, <2>4
<1>. QED
  BY <1>1, AlwaysShaped, PTL DEF Spec, ClosedRowsStayClosed

-----------------------------------------------------------------------------
(***************************************************************************)
(* No relocation loses what the application had settled before it began:   *)
(* SettledDataKept and DoneMeansRelocated, for every set of targets, pins  *)
(* and writes, while no two processes move the SAME asset.  (When two do,  *)
(* they fail: the run offload_two.)                                        *)
(*                                                                         *)
(* The argument.  While a process is at work on target t with pin p, the   *)
(* copy being made at dst[t][p] is reached through no link, until it is    *)
(* swapped in; and from the rename on everything settled is in it or       *)
(* behind the link that was renamed, so that a backup with files of its    *)
(* own may go.  PhaseAt says this label by label.  What went behind a      *)
(* replaced link stays in the copies the moves under way do not touch      *)
(* (Shelved).                                                              *)
(*                                                                         *)
(* The definitions below take the values they speak of (s, b: the nodes at *)
(* the target and its backup; D: the destinations; W, L: what was written  *)
(* and what of it is waived) so that the steps can be reasoned about       *)
(* without function updates.                                               *)
(***************************************************************************)

(* No two processes are in the middle of moving one asset.  Any number of   *)
(* them may relocate different assets, or one after the other.              *)
Engaged == Moving \cup {"done"}
Apart   == \A a, b \in Actors :
              a # b /\ pc[a] \in Engaged /\ pc[b] \in Engaged
                  => job[a].target # job[b].target

(* What is found through node n. *)
Seen(D, n) == IF n.kind = "link" THEN D[n.to].data ELSE n.data

LinkHolds(D, n) == n.kind = "link" => D[n.to].kind = "dir"

Safe(s, b, D, K) == /\ K \subseteq Seen(D, s) \cup Seen(D, b)
                    /\ LinkHolds(D, s) /\ LinkHolds(D, b)

(* What a link leads to; nothing, if n is none. *)
Linked(D, n) == IF n.kind = "link" THEN D[n.to].data ELSE {}

PhaseAt(l, p, s, b, D, W, L) ==
    /\ l \in {"copy", "copying", "verify", "swap", "dropdest"}
          => s # Link(p) /\ b # Link(p)
    /\ l \in {"link", "check", "dropbak", "restore", "rollback"} => b # Link(p)
    /\ l \in {"verify", "swap", "link", "check", "dropbak", "done"}
          => D[p].kind = "dir"
    /\ l = "verify" => (s.data \cap Silent) \ L \subseteq D[p].data
    /\ l = "swap" => s.data \ L \subseteq D[p].data
    /\ l \in {"link", "check", "dropbak"} => W \ L \subseteq D[p].data \cup Linked(D, b)
    /\ l = "done" => W \ L \subseteq D[p].data
    /\ l \in {"link", "check", "restore"} => W \ L \subseteq Seen(D, b) \cup s.data
    /\ l = "rollback" => s # Link(p)
    /\ l \in {"dropbak", "done"} => s = Link(p)
    /\ l = "done" => b = Missing

(* Nothing is owed for what was written late or left behind. *)
Waived(t) == late[t] \cup behind[t]

Kept(t)  == Safe(src[t], bak[t], dst[t], written[t] \ Waived(t))
Phase(a) == LET t == job[a].target IN
    PhaseAt(pc[a], pinned[a], src[t], bak[t], dst[t], written[t], Waived(t))

Sound == /\ \A t \in Targets : Kept(t)
         /\ \A a \in Actors : Phase(a)

LEMMA NodeFields ==
    /\ Missing.kind = "none" /\ Missing.data = {}
    /\ \A S : Dir(S).kind = "dir" /\ Dir(S).data = S
    /\ \A p : Link(p).kind = "link" /\ Link(p).data = {} /\ Link(p).to = p
    /\ \A n \in Node :
          /\ n.kind = "link" => n.to \in Pins /\ n = Link(n.to)
          /\ n.kind # "dir" => n.data = {}
          /\ n.kind = "none" => n = Missing
          /\ n.kind \in {"none", "dir", "link"}
<1>1. /\ Missing.kind = "none" /\ Missing.data = {}
      /\ \A S : Dir(S).kind = "dir" /\ Dir(S).data = S
      /\ \A p : Link(p).kind = "link" /\ Link(p).data = {} /\ Link(p).to = p
  BY DEF Missing, Dir, Link
<1>. QED
  BY <1>1, NodeShape

LEMMA InitSound == Init => Sound
<1>. SUFFICES ASSUME Init PROVE Sound
  OBVIOUS
<1>1. ASSUME NEW t \in Targets PROVE Kept(t)
  BY <1>1, NodeFields DEF Init, Kept, Safe, LinkHolds
<1>2. ASSUME NEW a \in Actors PROVE Phase(a)
  <2>1. pc[a] = "idle"
    BY DEF Init
  <2>. QED
    BY <2>1 DEF Phase, PhaseAt
<1>. QED
  BY <1>1, <1>2 DEF Sound

-----------------------------------------------------------------------------
(* Writing a destination that no link leads to disturbs nothing.           *)
LEMMA WriteAside ==
    ASSUME NEW s \in Node, NEW b \in Node, NEW D \in [Pins -> Node], NEW p \in Pins,
           NEW n \in Node, NEW K, Safe(s, b, D, K),
           s # Link(p), b # Link(p)
    PROVE  LET E == [D EXCEPT ![p] = n] IN
           /\ E \in [Pins -> Node] /\ E[p] = n
           /\ Seen(E, s) = Seen(D, s) /\ Seen(E, b) = Seen(D, b)
           /\ Safe(s, b, E, K)
<1>. DEFINE E == [D EXCEPT ![p] = n]
<1>1. /\ E \in [Pins -> Node] /\ E[p] = n
      /\ \A q \in Pins : q # p => E[q] = D[q]
  OBVIOUS
<1>2. /\ s.kind = "link" => s.to \in Pins /\ s.to # p
      /\ b.kind = "link" => b.to \in Pins /\ b.to # p
  BY NodeFields
<1>. HIDE DEF E
<1>3. /\ Seen(E, s) = Seen(D, s) /\ Seen(E, b) = Seen(D, b)
      /\ LinkHolds(D, s) = LinkHolds(E, s) /\ LinkHolds(D, b) = LinkHolds(E, b)
  BY <1>1, <1>2 DEF Seen, LinkHolds
<1>. QED
  BY <1>1, <1>3 DEF Safe, E

LEMMA ViaSeen == \A t, n : Via(t, n) = Seen(dst[t], n)
BY DEF Via, Seen

(* The values a step of process a works on. *)
LEMMA Values ==
    ASSUME FilesTyped, JobsTyped, HistTyped, NEW a \in Actors
    PROVE  LET t == job[a].target IN
           /\ t \in Targets /\ pinned[a] \in Pins
           /\ src[t] \in Node /\ bak[t] \in Node /\ dst[t] \in [Pins -> Node]
           /\ written[t] \subseteq Items /\ Waived(t) \subseteq Items
<1>1. job[a] \in Job /\ pinned[a] \in Pins
  BY DEF JobsTyped
<1>2. job[a].target \in Targets
  BY <1>1 DEF Job
<1>. QED
  BY <1>1, <1>2 DEF FilesTyped, HistTyped, Waived

(* From the guards to the end of the copy. *)
LEMMA CopySteps ==
    ASSUME Shaped, NEW a \in Actors, Kept(job[a].target), Phase(a),
           GuardsPass(a) \/ CopyStart(a) \/ CopyEnd(a) \/ CopyFail(a)
    PROVE  Kept(job[a].target)' /\ Phase(a)'
<1>. DEFINE t == job[a].target  p == pinned[a]
            s == src[t]  b == bak[t]  D == dst[t]  K == written[t] \ Waived(t)
<1>1. /\ t \in Targets /\ p \in Pins /\ s \in Node /\ b \in Node
      /\ D \in [Pins -> Node] /\ Through(t) \subseteq Items /\ D[p] \in Node
      /\ D[p].data \subseteq Items
  BY Values, FilesHoldItems DEF Shaped
<1>2. /\ job'[a] = job[a] /\ pinned'[a] = pinned[a]
      /\ src' = src /\ bak' = bak /\ written' = written /\ late' = late /\ behind' = behind
  BY DEF GuardsPass, CopyStart, CopyEnd, CopyFail, hist, fs
<1>3. Safe(s, b, D, K)
  BY DEF Kept
<1>4. pc \in [Actors -> Labels] /\ dst \in [Targets -> [Pins -> Node]]
  BY DEF Shaped, JobsTyped, FilesTyped
<1>5. CASE GuardsPass(a)
  <2>1. dst' = dst /\ pc'[a] = "copy" /\ D[p] = Missing
    BY <1>4, <1>5 DEF GuardsPass, Goto, fs, DestFree
  <2>2. s # Link(p) /\ b # Link(p)
    BY <1>3, <2>1, NodeFields DEF Safe, LinkHolds
  <2>. QED
    BY <1>2, <2>1, <2>2, <1>3 DEF Kept, Phase, PhaseAt, Waived
<1>6. CASE CopyStart(a) \/ CopyFail(a)
  <2>1. /\ pc'[a] \in {"copying", "dropdest"}
        /\ \/ dst' = dst
           \/ \E S \in SUBSET Items : dst' = [dst EXCEPT ![t][p] = Dir(S)]
    <3>1. \A S \in SUBSET Through(t) : D[p].data \cup S \in SUBSET Items
      BY <1>1
    <3>. QED
      BY <1>1, <1>4, <1>6, <3>1 DEF CopyStart, CopyFail, Copied, Goto
  <2>2. s # Link(p) /\ b # Link(p)
    BY <1>6 DEF Phase, PhaseAt, CopyStart, CopyFail
  <2>3. dst'[t] = D \/ \E n \in Node : dst'[t] = [D EXCEPT ![p] = n]
    <3>1. dst' = dst \/ \E n \in Node : dst' = [dst EXCEPT ![t][p] = n]
      BY <2>1, NodesTyped
    <3>. QED
      BY <1>1, <1>4, <3>1
  <2>4. Safe(s, b, dst'[t], K)
    <3>. HIDE DEF t, D, s, b, p, K
    <3>1. ASSUME NEW n \in Node PROVE Safe(s, b, [D EXCEPT ![p] = n], K)
      BY <1>1, <1>3, <2>2, WriteAside
    <3>. QED
      BY <1>3, <2>3, <3>1
  <2>5. Phase(a)'
    BY <1>2, <2>1, <2>2 DEF Phase, PhaseAt
  <2>. QED
    BY <1>2, <2>4, <2>5 DEF Kept, Waived
<1>7. CASE CopyEnd(a)
  <2>1. PICK S \in SUBSET Through(t) :
            /\ s.kind = "dir" => Through(t) \cap Silent \subseteq S
            /\ dst' = [dst EXCEPT ![t][p] = Dir(D[p].data \cup S)]
    BY <1>7 DEF CopyEnd, Copied
  <2>2. pc'[a] = "verify" /\ s # Link(p) /\ b # Link(p)
    BY <1>4, <1>7 DEF CopyEnd, Goto, Phase, PhaseAt
  <2>. DEFINE n == Dir(D[p].data \cup S)
  <2>3. n \in Node /\ n.kind = "dir" /\ S \subseteq n.data
    BY <1>1, NodesTyped, NodeFields
  <2>4. dst'[t] = [D EXCEPT ![p] = n]
    BY <1>1, <1>4, <2>1
  <2>5. Through(t) = Seen(D, s)
    BY ViaSeen DEF Through
  <2>. HIDE DEF D, n
  <2>6. dst'[t][p] = n /\ Safe(s, b, dst'[t], K)
    <3>. HIDE DEF t, s, b, p, K
    <3>1. [D EXCEPT ![p] = n][p] = n
      BY <1>1
    <3>2. ASSUME NEW m \in Node
          PROVE  Safe(s, b, [D EXCEPT ![p] = m], K)
      BY <1>1, <1>3, <2>2, WriteAside
    <3>. QED
      BY <2>3, <2>4, <3>1, <3>2
  <2>7. (s.data \cap Silent) \ Waived(t) \subseteq n.data
    <3>1. s.kind # "dir" => s.data = {}
      BY <1>1, NodeFields
    <3>2. s.kind = "dir" => Through(t) = s.data
      BY <2>5 DEF Seen
    <3>. QED
      BY <2>1, <2>3, <3>1, <3>2
  <2>8. Phase(a)'
    <3>1. PhaseAt("verify", p, s, b, dst'[t], written[t], Waived(t))
      BY <2>2, <2>3, <2>6, <2>7 DEF PhaseAt
    <3>. QED
      BY <1>2, <2>2, <3>1 DEF Phase, Waived
  <2>. QED
    BY <1>2, <2>6, <2>8 DEF Kept, Waived
<1>. QED
  BY <1>5, <1>6, <1>7

(* From the parity check to the end of Apply. *)
LEMMA SwapSteps ==
    ASSUME Shaped, NEW a \in Actors, Kept(job[a].target), Phase(a),
           \/ Verify(a) \/ Swap(a) \/ MakeLink(a) \/ CheckLink(a)
           \/ DropBak(a) \/ Restore(a) \/ Rollback(a)
    PROVE  Kept(job[a].target)' /\ Phase(a)'
<1>. DEFINE t == job[a].target  p == pinned[a]
            s == src[t]  b == bak[t]  D == dst[t]  W == written[t]  L == Waived(t)
<1>1. /\ t \in Targets /\ p \in Pins /\ s \in Node /\ b \in Node
      /\ D \in [Pins -> Node]
  BY Values DEF Shaped
<1>2. /\ job'[a] = job[a] /\ pinned'[a] = pinned[a]
      /\ dst' = dst /\ written' = written /\ late' = late
      /\ DropBak(a) \/ behind' = behind
  BY DEF Verify, Swap, MakeLink, CheckLink, DropBak, Restore, Rollback, hist, fs
<1>3. Safe(s, b, D, W \ L) /\ PhaseAt(pc[a], p, s, b, D, W, L)
  BY DEF Kept, Phase
<1>4. pc \in [Actors -> Labels] /\ src \in [Targets -> Node] /\ bak \in [Targets -> Node]
  BY DEF Shaped, JobsTyped, FilesTyped
<1>5. ASSUME NEW s1, NEW b1, NEW l1, behind' = behind,
             src'[t] = s1, bak'[t] = b1, pc'[a] = l1,
             Safe(s1, b1, D, W \ L), PhaseAt(l1, p, s1, b1, D, W, L)
      PROVE  Kept(job[a].target)' /\ Phase(a)'
  BY <1>2, <1>5 DEF Kept, Phase, Waived
<1>6. CASE Verify(a)
  <2>0. behind' = behind
    BY <1>6 DEF Verify, Swap, MakeLink, CheckLink, Restore, Rollback, hist
  <2>1. /\ src' = src /\ bak' = bak /\ pc[a] = "verify"
        /\ \/ pc'[a] = "swap" /\ D[p].kind = "dir" /\ s.data \ Silent = D[p].data \ Silent
           \/ pc'[a] = "dropdest"
    BY <1>4, <1>6 DEF Verify, Goto, fs, Counted
  <2>. HIDE DEF t, p, s, b, D, W, L
  <2>2. PhaseAt(pc'[a], p, s, b, D, W, L)
    BY <1>3, <2>1 DEF PhaseAt, Seen
  <2>. QED
    BY <1>3, <1>5, <2>0, <2>1, <2>2 DEF s, b
<1>7. CASE Swap(a)
  <2>0. behind' = behind
    BY <1>7 DEF Verify, Swap, MakeLink, CheckLink, Restore, Rollback, hist
  <2>1. /\ pc[a] = "swap"
        /\ \/ /\ b = Missing /\ bak'[t] = s /\ src'[t] = Missing /\ pc'[a] = "link"
           \/ /\ bak'[t] = b /\ src'[t] = s /\ pc'[a] = "dropdest"
    BY <1>1, <1>4, <1>7 DEF Swap, Goto
  <2>. DEFINE s1 == src'[t]  b1 == bak'[t]  l1 == pc'[a]
  <2>2. Safe(s1, b1, D, W \ L) /\ PhaseAt(l1, p, s1, b1, D, W, L)
    <3>. HIDE DEF t, p, s, b, D, W, L, s1, b1, l1
    <3>1. CASE b = Missing /\ b1 = s /\ s1 = Missing /\ l1 = "link"
      <4>1. Safe(s1, b1, D, W \ L)
        BY <1>3, <3>1, NodeFields DEF Safe, LinkHolds, Seen
      <4>2. PhaseAt(l1, p, s1, b1, D, W, L)
        BY <1>3, <2>1, <3>1, NodeFields DEF Safe, PhaseAt, LinkHolds, Seen, Linked
      <4>. QED
        BY <4>1, <4>2
    <3>2. CASE b1 = b /\ s1 = s /\ l1 = "dropdest"
      BY <1>3, <2>1, <3>2 DEF PhaseAt
    <3>. QED
      BY <2>1, <3>1, <3>2 DEF t, s1, b1, l1
  <2>. QED
    BY <1>5, <2>0, <2>2
<1>8. CASE MakeLink(a) \/ CheckLink(a)
  <2>0. behind' = behind
    BY <1>8 DEF Verify, Swap, MakeLink, CheckLink, Restore, Rollback, hist
  <2>1. /\ bak' = bak
        /\ \/ /\ pc[a] = "link" /\ s = Missing
              /\ src'[t] = Link(p) /\ pc'[a] = "check"
           \/ pc[a] \in {"link", "check"} /\ src'[t] = s /\ pc'[a] = "restore"
           \/ pc[a] = "check" /\ s = Link(p) /\ src'[t] = s /\ pc'[a] = "dropbak"
    BY <1>1, <1>4, <1>8 DEF MakeLink, CheckLink, Goto, fs
  <2>. DEFINE s1 == src'[t]  l1 == pc'[a]
  <2>2. Safe(s1, b, D, W \ L) /\ PhaseAt(l1, p, s1, b, D, W, L)
    <3>. HIDE DEF t, p, s, b, D, W, L, s1, l1
    <3>1. CASE pc[a] = "link" /\ s = Missing /\ s1 = Link(p) /\ l1 = "check"
      <4>1. Safe(s1, b, D, W \ L)
        BY <1>3, <3>1, NodeFields DEF Safe, PhaseAt, LinkHolds, Seen
      <4>2. PhaseAt(l1, p, s1, b, D, W, L)
        BY <1>3, <3>1, NodeFields DEF PhaseAt
      <4>. QED
        BY <4>1, <4>2
    <3>2. CASE pc[a] \in {"link", "check"} /\ s1 = s /\ l1 = "restore"
      BY <1>3, <3>2 DEF PhaseAt
    <3>3. CASE pc[a] = "check" /\ s = Link(p) /\ s1 = s /\ l1 = "dropbak"
      BY <1>3, <3>3 DEF PhaseAt
    <3>. QED
      BY <2>1, <3>1, <3>2, <3>3 DEF t, s1, l1
  <2>. QED
    BY <1>5, <2>0, <2>1, <2>2
<1>9. CASE DropBak(a)
  <2>. DEFINE b1 == bak'[t]  l1 == pc'[a]  L1 == Waived(t)'
  <2>1. /\ src' = src /\ pc[a] = "dropbak"
        /\ \/ b1 = Missing /\ l1 = "done" /\ L1 = L \cup Linked(D, b)
           \/ /\ b.kind = "dir" /\ L1 = L
              /\ \E S : b1 = Dir(S) /\ l1 = "failed"
    <3>1. src' = src /\ pc[a] = "dropbak"
      BY <1>9 DEF DropBak
    <3>2. CASE /\ bak' = [bak EXCEPT ![t] = Missing] /\ Goto(a, "done")
               /\ behind' = [behind EXCEPT ![t] = @ \cup
                          (IF bak[t].kind = "link" THEN Via(t, bak[t]) ELSE {})]
      <4>1. behind'[t] = behind[t] \cup Linked(D, b)
        BY <1>1, <3>2 DEF Shaped, HistTyped, Linked, Via
      <4>2. b1 = Missing /\ l1 = "done"
        BY <1>1, <1>4, <3>2 DEF Goto
      <4>. QED
        BY <1>2, <3>1, <4>1, <4>2 DEF Waived
    <3>3. CASE /\ b.kind = "dir" /\ Goto(a, "failed") /\ UNCHANGED behind
               /\ \E S \in SUBSET bak[t].data : bak' = [bak EXCEPT ![t] = Dir(S)]
      <4>1. l1 = "failed" /\ \E S : b1 = Dir(S)
        BY <1>1, <1>4, <3>3 DEF Goto
      <4>. QED
        BY <1>2, <3>1, <3>3, <4>1 DEF Waived
    <3>. QED
      BY <1>9, <3>2, <3>3 DEF DropBak
  <2>2. Safe(s, b1, D, W \ L1) /\ PhaseAt(l1, p, s, b1, D, W, L1)
    <3>. HIDE DEF t, p, s, b, D, W, L, b1, l1, L1
    <3>1. s = Link(p) /\ W \ L \subseteq D[p].data \cup Linked(D, b) /\ D[p].kind = "dir"
      BY <1>3, <2>1 DEF PhaseAt
    <3>2. b1.kind # "link" /\ (l1 = "failed" \/ (l1 = "done" /\ b1 = Missing))
      BY <2>1, NodeFields
    <3>3. W \ L1 \subseteq D[p].data
      <4>1. b.kind = "dir" => Linked(D, b) = {}
        BY DEF Linked
      <4>. QED
        BY <2>1, <3>1, <4>1
    <3>4. Safe(s, b1, D, W \ L1)
      BY <3>1, <3>2, <3>3, NodeFields DEF Safe, LinkHolds, Seen
    <3>5. PhaseAt(l1, p, s, b1, D, W, L1)
      BY <3>1, <3>2, <3>3 DEF PhaseAt
    <3>. QED
      BY <3>4, <3>5
  <2>. QED
    BY <1>2, <2>1, <2>2 DEF Kept, Phase
<1>10. CASE Restore(a)
  <2>0. behind' = behind
    BY <1>10 DEF Verify, Swap, MakeLink, CheckLink, Restore, Rollback, hist
  <2>1. /\ bak' = bak /\ pc[a] = "restore" /\ pc'[a] = "rollback"
        /\ \/ s.data = {} /\ src'[t] = Missing
           \/ s.data # {} /\ src'[t] = s
    BY <1>1, <1>4, <1>10 DEF Restore, Goto
  <2>. DEFINE s1 == src'[t]  l1 == pc'[a]
  <2>2. Safe(s1, b, D, W \ L) /\ PhaseAt(l1, p, s1, b, D, W, L)
    <3>. HIDE DEF t, p, s, b, D, W, L, s1, l1
    <3>1. b # Link(p) /\ W \ L \subseteq Seen(D, b) \cup s.data
      BY <1>3, <2>1 DEF PhaseAt
    <3>2. (s1 = Missing /\ s.data = {}) \/ (s1 = s /\ s.kind = "dir")
      BY <1>1, <2>1, NodeFields DEF t, s1
    <3>3. Safe(s1, b, D, W \ L)
      BY <1>3, <3>1, <3>2, NodeFields DEF Safe, LinkHolds, Seen
    <3>4. l1 = "rollback" /\ s1 # Link(p)
      BY <2>1, <3>2, NodeFields DEF l1
    <3>5. PhaseAt(l1, p, s1, b, D, W, L)
      BY <3>1, <3>4 DEF PhaseAt
    <3>. QED
      BY <3>3, <3>5
  <2>. QED
    BY <1>5, <2>0, <2>1, <2>2
<1>11. CASE Rollback(a)
  <2>0. behind' = behind
    BY <1>11 DEF Verify, Swap, MakeLink, CheckLink, Restore, Rollback, hist
  <2>1. /\ pc[a] = "rollback"
        /\ \/ /\ s = Missing /\ src'[t] = b /\ bak'[t] = Missing /\ pc'[a] = "dropdest"
           \/ /\ src'[t] = s /\ bak'[t] = b /\ pc'[a] = "failed"
    BY <1>1, <1>4, <1>11 DEF Rollback, Goto
  <2>. DEFINE s1 == src'[t]  b1 == bak'[t]  l1 == pc'[a]
  <2>2. Safe(s1, b1, D, W \ L) /\ PhaseAt(l1, p, s1, b1, D, W, L)
    <3>. HIDE DEF t, p, s, b, D, W, L, s1, b1, l1
    <3>1. CASE s = Missing /\ s1 = b /\ b1 = Missing /\ l1 = "dropdest"
      <4>1. Safe(s1, b1, D, W \ L)
        BY <1>3, <3>1, NodeFields DEF Safe, LinkHolds, Seen
      <4>2. PhaseAt(l1, p, s1, b1, D, W, L)
        BY <1>3, <2>1, <3>1, NodeFields DEF PhaseAt
      <4>. QED
        BY <4>1, <4>2
    <3>2. CASE s1 = s /\ b1 = b /\ l1 = "failed"
      BY <1>3, <3>2 DEF PhaseAt
    <3>. QED
      BY <2>1, <3>1, <3>2 DEF t, s1, b1, l1
  <2>. QED
    BY <1>5, <2>0, <2>2
<1>. QED
  BY <1>6, <1>7, <1>8, <1>9, <1>10, <1>11

LEMMA DropDestStep ==
    ASSUME Shaped, NEW a \in Actors, Kept(job[a].target), Phase(a), DropDest(a)
    PROVE  Kept(job[a].target)' /\ Phase(a)'
<1>. DEFINE t == job[a].target  p == pinned[a]
            s == src[t]  b == bak[t]  D == dst[t]  K == written[t] \ Waived(t)
<1>1. /\ t \in Targets /\ p \in Pins /\ s \in Node /\ b \in Node
      /\ D \in [Pins -> Node] /\ D[p].data \subseteq Items
  BY Values, FilesHoldItems DEF Shaped
<1>2. /\ job'[a] = job[a] /\ pinned'[a] = pinned[a] /\ pc'[a] = "failed"
      /\ src' = src /\ bak' = bak /\ written' = written /\ late' = late /\ behind' = behind
  BY DEF DropDest, hist, Shaped, JobsTyped, Goto
<1>3. Safe(s, b, D, K) /\ s # Link(p) /\ b # Link(p)
  BY DEF Kept, Phase, PhaseAt, DropDest
<1>4. dst'[t] = D \/ \E n \in Node : dst'[t] = [D EXCEPT ![p] = n]
  <2>1. \/ dst' = dst \/ dst' = [dst EXCEPT ![t][p] = Missing]
        \/ \E S \in SUBSET D[p].data : dst' = [dst EXCEPT ![t][p] = Dir(S)]
    BY DEF DropDest
  <2>2. dst' = dst \/ \E n \in Node : dst' = [dst EXCEPT ![t][p] = n]
    BY <1>1, <2>1, NodesTyped
  <2>3. dst \in [Targets -> [Pins -> Node]]
    BY DEF Shaped, FilesTyped
  <2>. QED
    BY <1>1, <2>2, <2>3
<1>5. Safe(s, b, dst'[t], K)
  <2>. HIDE DEF t, D, s, b, p, K
  <2>1. ASSUME NEW n \in Node PROVE Safe(s, b, [D EXCEPT ![p] = n], K)
    BY <1>1, <1>3, WriteAside
  <2>. QED
    BY <1>3, <1>4, <2>1
<1>. QED
  BY <1>2, <1>5 DEF Kept, Phase, PhaseAt, Waived

(* The other steps leave the files alone and claim nothing about them.     *)
LEMMA QueueSteps ==
    ASSUME Shaped, NEW a \in Actors, Kept(job[a].target),
           \/ GatesBlock(a) \/ GatesPass(a) \/ Mark(a) \/ GuardsRefuse(a)
           \/ Offer(a) \/ Insert(a) \/ Failed(a) \/ Done(a)
    PROVE  UNCHANGED <<src, bak, dst, hist>> /\ Phase(a)'
<1>1. UNCHANGED <<src, bak, dst, hist>>
  BY DEF GatesBlock, GatesPass, Mark, GuardsRefuse, Offer, Insert, Failed, Done,
         Finish, fs, hist
<1>2. pc'[a] \in {"idle", "gates", "mark", "guards", "offer", "insert", "failed"}
  <2>1. \E l \in {"idle", "gates", "mark", "guards", "offer", "insert", "failed"} :
           pc' = [pc EXCEPT ![a] = l]
    BY DEF GatesBlock, GatesPass, Mark, GuardsRefuse, Offer, Insert, Failed, Done,
           Finish, NextEntry, Goto
  <2>. QED
    BY <2>1 DEF Shaped, JobsTyped
<1>3. Phase(a)'
  BY <1>2 DEF Phase, PhaseAt
<1>. QED
  BY <1>1, <1>3

LEMMA StepSound ==
    ASSUME Shaped, Sound, Apart, NEW a \in Actors, Step(a)
    PROVE  Sound'
<1>. DEFINE t == job[a].target
<1>1. /\ t \in Targets /\ pinned[a] \in Pins /\ src \in [Targets -> Node]
      /\ bak \in [Targets -> Node] /\ dst \in [Targets -> [Pins -> Node]]
  BY Values DEF Shaped, FilesTyped
<1>2. Kept(t) /\ Phase(a)
  BY <1>1 DEF Sound
<1>3. CASE \/ GatesBlock(a) \/ GatesPass(a) \/ Mark(a) \/ GuardsRefuse(a)
           \/ Offer(a) \/ Insert(a) \/ Failed(a) \/ Done(a)
  <2>1. UNCHANGED <<src, bak, dst, hist>> /\ Phase(a)'
    BY <1>2, <1>3, QueueSteps
  <2>2. ASSUME NEW u \in Targets PROVE Kept(u)'
    BY <2>1, <2>2 DEF Sound, Kept, Waived, hist
  <2>3. ASSUME NEW b \in Actors, b # a PROVE Phase(b)'
    BY <2>1, <2>3, OthersUntouched DEF Shaped, Sound, Phase, Waived, hist
  <2>. QED
    BY <2>1, <2>2, <2>3 DEF Sound
<1>4. CASE \/ GuardsPass(a) \/ CopyStart(a) \/ CopyEnd(a) \/ CopyFail(a)
           \/ Verify(a) \/ Swap(a) \/ MakeLink(a) \/ CheckLink(a) \/ DropBak(a)
           \/ Restore(a) \/ Rollback(a) \/ DropDest(a)
  <2>1. job' = job /\ Kept(job[a].target)' /\ Phase(a)'
    <3>1. job' = job
      BY <1>4 DEF GuardsPass, CopyStart, CopyEnd, CopyFail, Verify, Swap, MakeLink,
                  CheckLink, DropBak, Restore, Rollback, DropDest
    <3>. QED
      BY <1>2, <1>4, <3>1, CopySteps, SwapSteps, DropDestStep
  <2>2. Kept(t)'
    BY <2>1
  <2>3. ASSUME NEW u \in Targets, u # t
        PROVE  /\ src'[u] = src[u] /\ bak'[u] = bak[u] /\ dst'[u] = dst[u]
               /\ written'[u] = written[u] /\ Waived(u)' = Waived(u)
    <3>1. src'[u] = src[u] /\ bak'[u] = bak[u]
      <4>1. src' = src \/ \E n : src' = [src EXCEPT ![t] = n]
        BY <1>4 DEF GuardsPass, CopyStart, CopyEnd, CopyFail, Verify, Swap, MakeLink,
                    CheckLink, DropBak, Restore, Rollback, DropDest, fs
      <4>2. bak' = bak \/ \E n : bak' = [bak EXCEPT ![t] = n]
        BY <1>4 DEF GuardsPass, CopyStart, CopyEnd, CopyFail, Verify, Swap, MakeLink,
                    CheckLink, DropBak, Restore, Rollback, DropDest, fs
      <4>. QED
        BY <1>1, <2>3, <4>1, <4>2
    <3>2. dst'[u] = dst[u]
      <4>1. dst' = dst \/ \E n : dst' = [dst EXCEPT ![t][pinned[a]] = n]
        BY <1>4 DEF GuardsPass, CopyStart, CopyEnd, CopyFail, Copied, Verify, Swap,
                    MakeLink, CheckLink, DropBak, Restore, Rollback, DropDest, fs
      <4>. QED
        BY <1>1, <2>3, <4>1
    <3>3. written' = written /\ late' = late /\ behind'[u] = behind[u]
      <4>1. written' = written /\ late' = late
        BY <1>4 DEF GuardsPass, CopyStart, CopyEnd, CopyFail, Verify, Swap, MakeLink,
                    CheckLink, DropBak, Restore, Rollback, DropDest, hist
      <4>2. behind' = behind \/ \E n : behind' = [behind EXCEPT ![t] = n]
        BY <1>4 DEF GuardsPass, CopyStart, CopyEnd, CopyFail, Verify, Swap, MakeLink,
                    CheckLink, DropBak, Restore, Rollback, DropDest, hist
      <4>. QED
        BY <1>1, <2>3, <4>1, <4>2 DEF Shaped, HistTyped
    <3>. QED
      BY <3>1, <3>2, <3>3 DEF Waived
  <2>4. ASSUME NEW u \in Targets, u # t PROVE Kept(u)'
    BY <2>3, <2>4 DEF Kept, Sound
  <2>5. ASSUME NEW b \in Actors, b # a PROVE Phase(b)'
    <3>1. /\ pc'[b] = pc[b] /\ job'[b] = job[b] /\ pinned'[b] = pinned[b]
          /\ Phase(b) /\ job[b].target \in Targets
      BY <2>5, OthersUntouched, Values DEF Shaped, Sound
    <3>2. CASE pc[b] \notin Engaged
      BY <3>1, <3>2 DEF Phase, PhaseAt, Engaged, Moving
    <3>3. CASE job[b].target # t
      BY <2>3, <3>1, <3>3 DEF Phase
    <3>4. CASE pc[b] \in Engaged /\ job[b].target = t
      <4>1. pc[a] \notin Engaged
        BY <2>5, <3>4 DEF Apart
      <4>2. GuardsPass(a)
        BY <1>4, <4>1 DEF Engaged, Moving, CopyStart, CopyEnd, CopyFail, Verify, Swap,
                    MakeLink, CheckLink, DropBak, Restore, Rollback, DropDest
      <4>3. UNCHANGED <<src, bak, dst, hist>>
        BY <4>2 DEF GuardsPass, fs
      <4>. QED
        BY <3>1, <4>3 DEF Phase, Waived, hist
    <3>. QED
      BY <3>2, <3>3, <3>4
  <2>. QED
    BY <2>1, <2>2, <2>4, <2>5 DEF Sound
<1>. QED
  BY <1>3, <1>4 DEF Step

(* A write of the owner: settled when no apply is under way, and then it   *)
(* is where the target path leads; late, and then nothing is owed for it.  *)
LEMMA WriteSound ==
    ASSUME Shaped, Sound, NEW u \in Targets, NEW i \in Items, AppWrite(u, i)
    PROVE  Sound'
<1>1. /\ src[u] \in Node /\ bak[u] \in Node /\ dst[u] \in [Pins -> Node]
      /\ src \in [Targets -> Node] /\ dst \in [Targets -> [Pins -> Node]]
      /\ written \in [Targets -> SUBSET Items] /\ late \in [Targets -> SUBSET Items]
  BY DEF Shaped, FilesTyped, HistTyped
<1>2. bak' = bak /\ UNCHANGED <<pc, job, pinned, behind>>
  BY DEF AppWrite
<1>. DEFINE s == src[u]  b == bak[u]  D == dst[u]  W == written[u]  L == Waived(u)
            s1 == src'[u]  D1 == dst'[u]  W1 == written'[u]  L1 == Waived(u)'
<1>3. /\ W1 = W \cup {i} /\ i \notin W
      /\ IF InFlight(u) THEN L1 = L \cup {i} ELSE L1 = L
      /\ D1 \in [Pins -> Node]
      /\ \/ s.kind = "dir" /\ s1 = Dir(s.data \cup {i}) /\ D1 = D
         \/ s.kind = "none" /\ s1 = Dir({i}) /\ i \notin Silent /\ D1 = D
         \/ /\ s.kind = "link" /\ s1 = s /\ D[s.to].kind = "dir"
            /\ D1 = [D EXCEPT ![s.to] = Dir(D[s.to].data \cup {i})]
  <2>1. D1 \in [Pins -> Node]
    BY EnvironmentTyped DEF Shaped, FilesTyped, Environment
  <2>2. /\ W1 = W \cup {i} /\ i \notin W
        /\ IF InFlight(u) THEN L1 = L \cup {i} ELSE L1 = L
    BY <1>1, <1>2 DEF AppWrite, Waived
  <2>3. \/ /\ s.kind = "dir" /\ dst' = dst
           /\ src' = [src EXCEPT ![u] = Dir(s.data \cup {i})]
        \/ /\ s.kind = "none" /\ i \notin Silent /\ dst' = dst
           /\ src' = [src EXCEPT ![u] = Dir({i})]
        \/ /\ s.kind = "link" /\ D[s.to].kind = "dir" /\ src' = src
           /\ dst' = [dst EXCEPT ![u][s.to] = Dir(D[s.to].data \cup {i})]
    BY DEF AppWrite
  <2>4. \A n : /\ src' = [src EXCEPT ![u] = n] => s1 = n
               /\ \A q : dst' = [dst EXCEPT ![u][q] = n] => D1 = [D EXCEPT ![q] = n]
    BY <1>1
  <2>5. (dst' = dst => D1 = D) /\ (src' = src => s1 = s)
    OBVIOUS
  <2>. HIDE DEF s, s1, D, D1, W, W1, L, L1
  <2>. QED
    BY <2>1, <2>2, <2>3, <2>4, <2>5
<1>4. \A t \in Targets : t # u =>
         /\ src'[t] = src[t] /\ dst'[t] = dst[t]
         /\ written'[t] = written[t] /\ Waived(t)' = Waived(t)
  BY <1>1, <1>2 DEF AppWrite, Waived
<1>5. /\ s.kind = "link" <=> s1.kind = "link"
      /\ s.kind = "link" => s1 = s
      /\ s.data \subseteq s1.data /\ s1.data \subseteq s.data \cup {i}
  <2>1. \/ s.kind = "dir" /\ s1 = Dir(s.data \cup {i})
        \/ s.kind = "none" /\ s1 = Dir({i})
        \/ s.kind = "link" /\ s1 = s
    BY <1>3
  <2>2. /\ Dir(s.data \cup {i}).kind = "dir" /\ Dir(s.data \cup {i}).data = s.data \cup {i}
        /\ Dir({i}).kind = "dir" /\ Dir({i}).data = {i}
        /\ s.kind = "none" => s.data = {}
    BY <1>1, NodeFields
  <2>. HIDE DEF s, s1
  <2>. QED
    BY <2>1, <2>2
<1>6. \A q \in Pins :
         /\ D[q].data \subseteq D1[q].data /\ D1[q].data \subseteq D[q].data \cup {i}
         /\ D[q].kind = "dir" => D1[q].kind = "dir"
  <2>1. s.kind = "link" => s.to \in Pins
    BY <1>1, NodeFields
  <2>. HIDE DEF s, s1, W, W1, L, L1
  <2>2. CASE D1 = D
    BY <2>2
  <2>3. CASE s.to \in Pins /\ D1 = [D EXCEPT ![s.to] = Dir(D[s.to].data \cup {i})]
    <3>. HIDE DEF D, D1
    <3>1. D \in [Pins -> Node]
      BY <1>1 DEF D
    <3>. QED
      BY <2>3, <3>1, NodeFields
  <2>. QED
    BY <1>3, <2>1, <2>2, <2>3
<1>7. /\ Seen(D, s) \subseteq Seen(D1, s1) /\ Seen(D1, s1) \subseteq Seen(D, s) \cup {i}
      /\ i \in Seen(D1, s1) /\ Seen(D, b) \subseteq Seen(D1, b)
      /\ LinkHolds(D, s) => LinkHolds(D1, s1)
      /\ LinkHolds(D, b) => LinkHolds(D1, b)
  <2>1. /\ s.kind = "link" => s.to \in Pins
        /\ b.kind = "link" => b.to \in Pins
    BY <1>1, NodeFields
  <2>2. D \in [Pins -> Node]
    BY <1>1
  <2>. HIDE DEF s, b, D, D1, s1, W, W1, L, L1
  <2>3. i \in Seen(D1, s1)
    BY <1>3, <2>1, <2>2, NodeFields DEF Seen
  <2>. QED
    BY <1>5, <1>6, <2>1, <2>3 DEF Seen, LinkHolds
<1>8. Safe(s, b, D, W \ L)
  BY DEF Sound, Kept
<1>9. Safe(s1, b, D1, W1 \ L1)
  <2>1. W1 \ L1 \subseteq (W \ L) \cup {i}
    BY <1>3
  <2>. HIDE DEF s, b, D, D1, s1, W, W1, L, L1
  <2>2. (W \ L) \cup {i} \subseteq Seen(D1, s1) \cup Seen(D1, b)
    <3>1. W \ L \subseteq Seen(D, s) \cup Seen(D, b)
      BY <1>8 DEF Safe
    <3>. QED
      BY <1>7, <3>1
  <2>3. LinkHolds(D1, s1) /\ LinkHolds(D1, b)
    BY <1>7, <1>8 DEF Safe
  <2>. QED
    BY <2>1, <2>2, <2>3 DEF Safe
<1>10. Kept(u)'
  BY <1>2, <1>9 DEF Kept
<1>11. ASSUME NEW a \in Actors PROVE Phase(a)'
  <2>. DEFINE p == pinned[a]  l == pc[a]
  <2>1. p \in Pins /\ Phase(a) /\ job'[a] = job[a] /\ pc'[a] = l /\ pinned'[a] = p
    BY <1>2 DEF Shaped, JobsTyped, Sound
  <2>2. CASE job[a].target # u
    <3>1. job[a].target \in Targets
      BY Values DEF Shaped
    <3>. QED
      BY <1>2, <1>4, <2>1, <2>2, <3>1 DEF Phase
  <2>3. CASE job[a].target = u
    <3>1. PhaseAt(l, p, s, b, D, W, L)
      BY <2>1, <2>3 DEF Phase
    <3>2. l \in Moving => InFlight(u)
      BY <2>3 DEF InFlight
    <3>3. PhaseAt(l, p, s1, b, D1, W1, L1)
      <4>1. CASE l \notin Moving \cup {"done"}
        BY <4>1 DEF PhaseAt, Moving
      <4>2. CASE l = "done"
        <5>1. s = Link(p) /\ b = Missing /\ D[p].kind = "dir" /\ W \ L \subseteq D[p].data
          BY <3>1, <4>2 DEF PhaseAt
        <5>2. s.kind = "link" /\ Seen(D1, s) = D1[p].data
          BY <5>1, NodeFields DEF Seen
        <5>3. W1 \ L1 \subseteq D1[p].data
          <6>1. W1 \ L1 \subseteq (W \ L) \cup {i}
            BY <1>3
          <6>2. D[p].data \subseteq D1[p].data
            BY <1>6, <2>1
          <6>3. i \in D1[p].data
            <7>1. i \in Seen(D1, s1) /\ s1 = s
              BY <1>5, <1>7, <5>2
            <7>. HIDE DEF s, s1, D1, p
            <7>. QED
              BY <7>1, <5>2
          <6>. HIDE DEF D, D1, p, W, W1, L, L1
          <6>. QED
            BY <5>1, <6>1, <6>2, <6>3
        <5>4. s1 = Link(p) /\ D1[p].kind = "dir"
          BY <1>5, <1>6, <2>1, <5>1, <5>2
        <5>. QED
          BY <4>2, <5>1, <5>3, <5>4 DEF PhaseAt
      <4>3. CASE l \in Moving
        <5>1. L1 = L \cup {i} /\ W1 = W \cup {i}
          BY <1>3, <3>2, <4>3
        <5>. HIDE DEF s, b, D, D1, s1, W, W1, L, L1, p, l
        <5>2. s # Link(p) => s1 # Link(p)
          BY <1>3, NodeFields
        <5>3. W1 \ L1 \subseteq W \ L
          BY <5>1
        <5>4. D[p].data \subseteq D1[p].data /\ (D[p].kind = "dir" => D1[p].kind = "dir")
          BY <1>6, <2>1
        <5>5. s1.data \ L1 \subseteq s.data \ L
          BY <1>5, <5>1
        <5>6. (s1.data \cap Silent) \ L1 \subseteq (s.data \cap Silent) \ L
          BY <1>5, <5>1
        <5>7. l # "done"
          BY <4>3 DEF Moving
        <5>8. l = "dropbak" => s1 = Link(p)
          <6>1. l = "dropbak" => s = Link(p)
            BY <3>1 DEF PhaseAt
          <6>. QED
            BY <1>5, <6>1, NodeFields
        <5>9. /\ Seen(D, b) \subseteq Seen(D1, b) /\ s.data \subseteq s1.data
              /\ s.kind = "link" <=> s1.kind = "link"
          BY <1>5, <1>7
        <5>10. /\ l = "verify" => (s1.data \cap Silent) \ L1 \subseteq D1[p].data
               /\ l = "swap" => s1.data \ L1 \subseteq D1[p].data
          BY <3>1, <5>4, <5>5, <5>6 DEF PhaseAt
        <5>11. l \in {"link", "check", "restore"} =>
                 W1 \ L1 \subseteq Seen(D1, b) \cup s1.data
          BY <3>1, <5>3, <5>9 DEF PhaseAt
        <5>12. l \in {"link", "check", "dropbak"} =>
                 W1 \ L1 \subseteq D1[p].data \cup Linked(D1, b)
          <6>1. Linked(D, b) \subseteq Linked(D1, b)
            <7>1. b.kind = "link" => b.to \in Pins
              BY <1>1, NodeFields DEF b
            <7>. QED
              BY <1>6, <7>1 DEF Linked
          <6>. QED
            BY <3>1, <5>3, <5>4, <6>1 DEF PhaseAt
        <5>. QED
          BY <3>1, <5>2, <5>4, <5>7, <5>8, <5>10, <5>11, <5>12 DEF PhaseAt
      <4>. QED
        BY <4>1, <4>2, <4>3
    <3>. QED
      BY <1>2, <2>1, <2>3, <3>3 DEF Phase
  <2>. QED
    BY <2>2, <2>3
<1>12. ASSUME NEW t \in Targets, t # u PROVE Kept(t)'
  BY <1>2, <1>4, <1>12 DEF Kept, Sound
<1>. QED
  BY <1>10, <1>11, <1>12 DEF Sound

(* A step is the owner's write, a process's, or touches no file and no job. *)
LEMMA WhoActs ==
    ASSUME [Next]_vars
    PROVE  \/ UNCHANGED <<src, bak, dst, hist, pc, job, pinned>>
           \/ \E t \in Targets, i \in Items : AppWrite(t, i)
           \/ \E a \in Actors : Start(a) \/ Crash(a) \/ Step(a)
<1>1. UNCHANGED vars => UNCHANGED <<src, bak, dst, hist, pc, job, pinned>>
  BY DEF vars, hist
<1>2. ASSUME Environment
      PROVE  \/ UNCHANGED <<src, bak, dst, hist, pc, job, pinned>>
             \/ \E t \in Targets, i \in Items : AppWrite(t, i)
             \/ \E a \in Actors : Crash(a)
  BY <1>2 DEF Environment, AppToggle, VolumeToggle, EditConfig, Cancel, fs, hist
<1>. QED
  BY <1>1, <1>2 DEF Next

LEMMA NextSound == Shaped /\ Sound /\ Apart /\ [Next]_vars => Sound'
<1>. SUFFICES ASSUME Shaped, Sound, Apart, [Next]_vars PROVE Sound'
  OBVIOUS
<1>1. ASSUME UNCHANGED <<src, bak, dst, hist, pc, job, pinned>> PROVE Sound'
  BY <1>1 DEF Sound, Kept, Phase, Waived, hist
<1>2. ASSUME NEW t \in Targets, NEW i \in Items, AppWrite(t, i) PROVE Sound'
  BY <1>2, WriteSound
<1>3. ASSUME NEW a \in Actors, Start(a) \/ Crash(a) PROVE Sound'
  <2>1. UNCHANGED <<src, bak, dst, hist>>
    BY <1>3 DEF Start, StartApply, StartPending, Crash, fs, hist
  <2>2. pc'[a] \in {"idle", "gates", "guards"}
    <3>1. \E l \in {"idle", "gates", "guards"} : pc' = [pc EXCEPT ![a] = l]
      BY <1>3 DEF Start, StartApply, StartPending, Crash, NextEntry, Goto
    <3>. QED
      BY <3>1 DEF Shaped, JobsTyped
  <2>3. Phase(a)'
    BY <2>2 DEF Phase, PhaseAt
  <2>4. ASSUME NEW t \in Targets PROVE Kept(t)'
    BY <2>1, <2>4 DEF Sound, Kept, Waived, hist
  <2>5. ASSUME NEW b \in Actors, b # a PROVE Phase(b)'
    BY <1>3, <2>1, <2>5, OthersUntouched DEF Shaped, Sound, Phase, Waived, hist
  <2>. QED
    BY <2>3, <2>4, <2>5 DEF Sound
<1>4. ASSUME NEW a \in Actors, Step(a) PROVE Sound'
  BY <1>4, StepSound
<1>. QED
  BY <1>1, <1>2, <1>3, <1>4, WhoActs

-----------------------------------------------------------------------------
(* What went behind a replaced link: it is in the copies, and when a move  *)
(* is under way in those it does not touch.                                *)
Held(t)   == behind[t] \subseteq UNION {dst[t][q].data : q \in Pins}
Spared(a) == LET t == job[a].target IN
    pc[a] \in Moving =>
        behind[t] \subseteq UNION {dst[t][q].data : q \in Pins \ {pinned[a]}}

Shelved == /\ \A t \in Targets : Held(t)
           /\ \A a \in Actors : Spared(a)

(* Only the copy of the process that steps can lose anything, and what it  *)
(* leaves behind is in the copies.                                         *)
LEMMA ShelfSteps ==
    ASSUME Shaped, NEW a \in Actors, Step(a)
    PROVE  LET t == job[a].target IN
           /\ \A u \in Targets \ {t} : behind'[u] = behind[u] /\ dst'[u] = dst[u]
           /\ \A q \in Pins \ {pinned[a]} : dst'[t][q] = dst[t][q]
           /\ pc[a] \notin Moving => dst' = dst
           /\ pc[a] # "dropbak" => behind' = behind
           /\ pc[a] = "dropbak" =>
                 /\ dst' = dst /\ pc'[a] \notin Moving
                 /\ behind'[t] \subseteq behind[t] \cup UNION {dst[t][q].data : q \in Pins}
           /\ pc[a] \notin Moving /\ pc'[a] \in Moving =>
                 /\ GuardsPass(a) /\ dst[t][pinned[a]].data = {}
           /\ pc[a] \in Moving => job'[a] = job[a]
           /\ pinned'[a] = pinned[a]
<1>. DEFINE t == job[a].target  p == pinned[a]
<1>1. /\ t \in Targets /\ p \in Pins /\ dst \in [Targets -> [Pins -> Node]]
      /\ bak[t] \in Node /\ pc \in [Actors -> Labels]
      /\ behind \in [Targets -> SUBSET Items]
  BY Values DEF Shaped, FilesTyped, JobsTyped, HistTyped
<1>2. pinned' = pinned
  BY DEF Step, GatesBlock, GatesPass, Mark, GuardsPass, GuardsRefuse, Offer, Insert,
         CopyStart, CopyEnd, CopyFail, Verify, Swap, MakeLink, CheckLink, DropBak,
         Restore, Rollback, DropDest, Failed, Done, Finish
<1>3. dst' = dst \/ \E n : dst' = [dst EXCEPT ![t][p] = n]
  BY DEF Step, GatesBlock, GatesPass, Mark, GuardsPass, GuardsRefuse, Offer, Insert,
         CopyStart, CopyEnd, CopyFail, Copied, Verify, Swap, MakeLink, CheckLink,
         DropBak, Restore, Rollback, DropDest, Failed, Done, Finish, fs
<1>4. /\ \A u \in Targets \ {t} : dst'[u] = dst[u]
      /\ \A q \in Pins \ {p} : dst'[t][q] = dst[t][q]
  <2>. HIDE DEF t, p
  <2>. QED
    BY <1>1, <1>3
<1>5. CASE \/ GatesBlock(a) \/ GatesPass(a) \/ Mark(a) \/ GuardsRefuse(a)
           \/ Offer(a) \/ Insert(a) \/ Failed(a) \/ Done(a)
  <2>1. dst' = dst /\ behind' = behind
    BY <1>5 DEF GatesBlock, GatesPass, Mark, GuardsRefuse, Offer, Insert, Failed,
                Done, Finish, fs, hist
  <2>2. pc[a] \notin Moving
    BY <1>5 DEF Moving, GatesBlock, GatesPass, Mark, GuardsRefuse, Offer, Insert,
                Failed, Done, Finish
  <2>3. pc'[a] \notin Moving
    <3>1. \E l \in {"idle", "gates", "mark", "guards", "offer", "insert", "failed"} :
             pc' = [pc EXCEPT ![a] = l]
      BY <1>5 DEF GatesBlock, GatesPass, Mark, GuardsRefuse, Offer, Insert, Failed,
                  Done, Finish, NextEntry, Goto
    <3>. QED
      BY <1>1, <3>1 DEF Moving
  <2>. QED
    BY <1>2, <1>4, <2>1, <2>2, <2>3 DEF Moving
<1>6. CASE GuardsPass(a)
  <2>1. /\ dst' = dst /\ behind' = behind /\ pc[a] = "guards"
        /\ dst[t][p].data = {} /\ job' = job
    BY <1>6, NodeFields DEF GuardsPass, DestFree, fs, hist
  <2>. QED
    BY <1>2, <1>4, <1>6, <2>1 DEF Moving
<1>7. CASE \/ CopyStart(a) \/ CopyEnd(a) \/ CopyFail(a) \/ Verify(a) \/ Swap(a)
           \/ MakeLink(a) \/ CheckLink(a) \/ Restore(a) \/ Rollback(a) \/ DropDest(a)
  <2>1. behind' = behind /\ job' = job
    BY <1>7 DEF CopyStart, CopyEnd, CopyFail, Verify, Swap, MakeLink, CheckLink,
                Restore, Rollback, DropDest, hist
  <2>2. pc[a] \in Moving /\ pc[a] # "dropbak"
    BY <1>7 DEF Moving, CopyStart, CopyEnd, CopyFail, Verify, Swap, MakeLink,
                CheckLink, Restore, Rollback, DropDest
  <2>. QED
    BY <1>2, <1>4, <2>1, <2>2
<1>8. CASE DropBak(a)
  <2>1. /\ dst' = dst /\ job' = job /\ pc[a] = "dropbak"
        /\ \/ behind' = behind
           \/ behind' = [behind EXCEPT ![t] = @ \cup
                          (IF bak[t].kind = "link" THEN Via(t, bak[t]) ELSE {})]
        /\ \E l \in {"done", "failed"} : pc' = [pc EXCEPT ![a] = l]
    BY <1>8 DEF DropBak, Goto
  <2>2. bak[t].kind = "link" =>
           Via(t, bak[t]) \subseteq UNION {dst[t][q].data : q \in Pins}
    BY <1>1, NodeFields DEF Via
  <2>3. pc'[a] \notin Moving
    BY <1>1, <2>1 DEF Moving
  <2>4. /\ behind'[t] \subseteq behind[t] \cup UNION {dst[t][q].data : q \in Pins}
        /\ \A u \in Targets \ {t} : behind'[u] = behind[u]
    <3>. HIDE DEF t
    <3>. QED
      BY <1>1, <2>1, <2>2
  <2>. QED
    BY <1>2, <1>4, <2>1, <2>3, <2>4 DEF Moving
<1>. QED
  BY <1>5, <1>6, <1>7, <1>8 DEF Step

LEMMA StepShelved ==
    ASSUME Shaped, Shelved, Apart, NEW a \in Actors, Step(a)
    PROVE  Shelved'
<1>. DEFINE t == job[a].target  p == pinned[a]
<1>1. t \in Targets /\ p \in Pins
  BY Values DEF Shaped
<1>2. Held(t) /\ Spared(a)
  BY <1>1 DEF Shelved
<1>3. Spared(a)'
  <2>1. CASE pc'[a] \notin Moving
    BY <2>1 DEF Spared
  <2>2. CASE pc[a] \in Moving /\ pc'[a] \in Moving
    BY <1>2, <2>2, ShelfSteps DEF Spared
  <2>3. CASE pc[a] \notin Moving /\ pc'[a] \in Moving
    <3>1. /\ GuardsPass(a) /\ dst[t][p].data = {} /\ dst' = dst /\ behind' = behind
          /\ pinned'[a] = p
      BY <2>3, ShelfSteps DEF Moving
    <3>2. job' = job
      BY <3>1 DEF GuardsPass
    <3>3. behind[t] \subseteq UNION {dst[t][q].data : q \in Pins \ {p}}
      BY <1>2, <3>1 DEF Held
    <3>. QED
      BY <3>1, <3>2, <3>3 DEF Spared
  <2>. QED
    BY <2>1, <2>2, <2>3
<1>4. ASSUME NEW u \in Targets, u = t PROVE Held(u)'
  <2>. HIDE DEF t
  <2>1. CASE pc[a] \notin Moving
    BY <1>2, <1>4, <2>1, ShelfSteps DEF Held, Moving, t
  <2>2. CASE pc[a] = "dropbak"
    BY <1>2, <1>4, <2>2, ShelfSteps DEF Held, t
  <2>3. CASE pc[a] \in Moving /\ pc[a] # "dropbak"
    BY <1>1, <1>2, <1>4, <2>3, ShelfSteps DEF Held, Spared, t
  <2>. QED
    BY <2>1, <2>2, <2>3
<1>5. ASSUME NEW u \in Targets, u # t PROVE Held(u)'
  BY <1>5, ShelfSteps DEF Held, Shelved
<1>6. ASSUME NEW b \in Actors, b # a PROVE Spared(b)'
  <2>1. /\ pc'[b] = pc[b] /\ job'[b] = job[b] /\ pinned'[b] = pinned[b]
        /\ Spared(b) /\ job[b].target \in Targets
    BY <1>6, OthersUntouched, Values DEF Shaped, Shelved
  <2>2. CASE job[b].target # t
    BY <2>1, <2>2, ShelfSteps DEF Spared
  <2>3. CASE job[b].target = t /\ pc[b] \in Moving
    <3>1. pc[a] \notin Engaged
      BY <1>6, <2>3 DEF Apart, Engaged
    <3>2. dst' = dst /\ behind' = behind
      BY <3>1, ShelfSteps DEF Engaged, Moving
    <3>. QED
      BY <2>1, <3>2 DEF Spared
  <2>. QED
    BY <2>1, <2>2, <2>3 DEF Spared
<1>. QED
  BY <1>3, <1>4, <1>5, <1>6 DEF Shelved

LEMMA NextShelved == Shaped /\ Shelved /\ Apart /\ [Next]_vars => Shelved'
<1>. SUFFICES ASSUME Shaped, Shelved, Apart, [Next]_vars PROVE Shelved'
  OBVIOUS
<1>1. ASSUME UNCHANGED <<src, bak, dst, hist, pc, job, pinned>> PROVE Shelved'
  BY <1>1 DEF Shelved, Held, Spared, hist
<1>2. ASSUME NEW u \in Targets, NEW i \in Items, AppWrite(u, i) PROVE Shelved'
  <2>1. UNCHANGED <<pc, job, pinned, behind>>
    BY <1>2 DEF AppWrite
  <2>2. ASSUME NEW t \in Targets, NEW q \in Pins
        PROVE  dst[t][q].data \subseteq dst'[t][q].data
    <3>1. dst \in [Targets -> [Pins -> Node]]
      BY DEF Shaped, FilesTyped
    <3>2. dst' = dst \/ \E r : dst' = [dst EXCEPT ![u][r] = Dir(dst[u][r].data \cup {i})]
      BY <1>2 DEF AppWrite
    <3>3. ASSUME NEW r, dst' = [dst EXCEPT ![u][r] = Dir(dst[u][r].data \cup {i})]
          PROVE  dst[t][q].data \subseteq dst'[t][q].data
      <4>1. CASE t = u /\ q = r
        <5>1. dst'[t][q] = Dir(dst[u][r].data \cup {i})
          BY <2>2, <3>1, <3>3, <4>1
        <5>. QED
          BY <4>1, <5>1, NodeFields
      <4>2. CASE ~(t = u /\ q = r)
        BY <2>2, <3>1, <3>3, <4>2
      <4>. QED
        BY <4>1, <4>2
    <3>. QED
      BY <3>2, <3>3
  <2>3. ASSUME NEW t \in Targets, NEW Q \in SUBSET Pins
        PROVE  UNION {dst[t][q].data : q \in Q} \subseteq UNION {dst'[t][q].data : q \in Q}
    BY <2>2, <2>3
  <2>4. ASSUME NEW t \in Targets PROVE Held(t)'
    BY <2>1, <2>3, <2>4 DEF Shelved, Held
  <2>5. ASSUME NEW a \in Actors PROVE Spared(a)'
    <3>1. job[a].target \in Targets /\ Spared(a)
      BY <2>5, Values DEF Shaped, Shelved
    <3>2. UNION {dst[job[a].target][q].data : q \in Pins \ {pinned[a]}}
             \subseteq UNION {dst'[job[a].target][q].data : q \in Pins \ {pinned[a]}}
      BY <2>3, <3>1
    <3>. QED
      BY <2>1, <3>1, <3>2 DEF Spared
  <2>. QED
    BY <2>4, <2>5 DEF Shelved
<1>3. ASSUME NEW a \in Actors, Start(a) \/ Crash(a) PROVE Shelved'
  <2>1. UNCHANGED <<dst, behind>>
    BY <1>3 DEF Start, StartApply, StartPending, Crash, fs, hist
  <2>2. pc'[a] \notin Moving
    <3>1. \E l \in {"idle", "gates", "guards"} : pc' = [pc EXCEPT ![a] = l]
      BY <1>3 DEF Start, StartApply, StartPending, Crash, NextEntry, Goto
    <3>. QED
      BY <3>1 DEF Shaped, JobsTyped, Moving
  <2>3. ASSUME NEW b \in Actors, b # a PROVE Spared(b)'
    BY <1>3, <2>1, <2>3, OthersUntouched DEF Shaped, Shelved, Spared
  <2>. QED
    BY <2>1, <2>2, <2>3 DEF Shelved, Held, Spared
<1>4. ASSUME NEW a \in Actors, Step(a) PROVE Shelved'
  BY <1>4, StepShelved
<1>. QED
  BY <1>1, <1>2, <1>3, <1>4, WhoActs

LEMMA InitShelved == Init => Shelved
BY DEF Init, Shelved, Held, Spared, Moving

LEMMA AlwaysSound == Spec /\ []Apart => [](Shaped /\ Sound /\ Shelved)
<1>1. Init => Shaped /\ Sound /\ Shelved
  BY InitShaped, InitSound, InitShelved
<1>2. Shaped /\ Sound /\ Shelved /\ Apart /\ [Next]_vars => (Shaped /\ Sound /\ Shelved)'
  BY StepShaped, NextSound, NextShelved
<1>. QED
  BY <1>1, <1>2, PTL DEF Spec

(* SettledDataKept, where no two processes move the same asset: through    *)
(* every failure, kill, unmount, edit of the configuration and             *)
(* interleaving with the owner's writes, what it had written before a move *)
(* is found through the path or its backup, and what a replaced link led   *)
(* to in the copies.                                                       *)
THEOREM NothingSettledIsLost == Spec /\ []Apart => []SettledDataKept
<1>1. Shaped /\ Sound /\ Shelved => SettledDataKept
  BY ViaSeen DEF Sound, Kept, Safe, Waived, Shelved, Held, SettledDataKept
<1>. QED
  BY <1>1, AlwaysSound, PTL

(* DoneMeansRelocated, under the same hypothesis.                          *)
THEOREM RelocationComplete == Spec /\ []Apart => []DoneMeansRelocated
<1>1. Shaped /\ Sound => DoneMeansRelocated
  BY DEF Sound, Phase, PhaseAt, Waived, DoneMeansRelocated
<1>. QED
  BY <1>1, AlwaysSound, PTL
=============================================================================
