-------------------------- MODULE AutoCleanProofs --------------------------
(***************************************************************************)
(* The safety properties of AutoClean, for any number of doors and targets *)
(* and without bounds on events, faults and kills.                         *)
(***************************************************************************)
EXTENDS AutoClean, TLAPS, FiniteSetTheorems

(* tickMu is held by the door that is inside its tick. *)
Mutex == \A d \in Doors : pc[d] \in InTick => holder = d

(* The ids a door keeps are ids of rows. *)
HasRow == {"dropgone", "record", "reprove", "remove", "settle", "dismiss"}

IdsExist ==
    \A d \in Doors :
        /\ job[d].fresh \cup job[d].probe \cup job[d].retry \subseteq DOMAIN rows
        /\ pc[d] \in HasRow => job[d].row \in DOMAIN rows

(* A door that has checked a target for an open row is the only one that   *)
(* may file one.                                                           *)
Deduped ==
    /\ OneOpenRow
    /\ \A d \in Doors : pc[d] = "insert" => ~HasOpen(rows, job[d].cur)

(* Between its pivot and its terminal row a delete has an in_progress row  *)
(* that no removal is accounted to yet.                                    *)
Known(t) == audit[t].open + audit[t].deleted + audit[t].errored

Spare(d) ==
    \/ pc[d] \in {"reprove", "remove"}
    \/ pc[d] = "settle" /\ job[d].result = "refused"

Ledger ==
    /\ RemovalsAreAudited
    /\ \A d \in Doors :
          /\ pc[d] \in {"reprove", "remove", "settle"} => audit[InHand(d)].open >= 1
          /\ Spare(d) => removed[InHand(d)] + 1 <= Known(InHand(d))

(* What a door has seen and read since it took the lock. *)
Reading  == InTick \ {"scan", "persist", "insert", "snapshot", "unlock"}
Deleting == {"record", "reprove", "remove"}

Proven ==
    \A d \in Doors :
        /\ pc[d] \in InTick => /\ On(cfg) => seen[d].on
                               /\ \A t \in Target : world[t] = "stale" => t \in seen[d].stale
        /\ pc[d] \in Reading => /\ job[d].trigger # "pressure"
                                /\ On(job[d].snap) => seen[d].on
        /\ pc[d] \in Deleting => On(job[d].snap) /\ ModuleOf[InHand(d)] \in Allowed
        /\ pc[d] = "remove" => InHand(d) \in seen[d].stale \cup Families

(* What a tick closes, it has found gone, or made so; of a family it only  *)
(* believes it.                                                            *)
Closing(d) == pc[d] \in {"dropgone", "dismiss"} \/ (pc[d] = "settle" /\ Handled(d))

Fulfilled ==
    \A d \in Doors :
        /\ pc[d] \in InTick => \A t \in Target : world[t] = "absent" => t \in seen[d].gone
        /\ Closing(d) => InHand(d) \in seen[d].gone \cup Families

CleanInv == TypeOK /\ Mutex /\ IdsExist /\ Deduped /\ Ledger /\ Proven /\ Fulfilled

-----------------------------------------------------------------------------
(* Rows are appended and dismissed, nothing else.                          *)
Grown(new, old) ==
    /\ new \in Seq(SuggestionRow(Target)) /\ DOMAIN old \subseteq DOMAIN new
    /\ \A id \in DOMAIN old : new[id].target = old[id].target
                              /\ (new[id].open => old[id].open)

LEMMA RowsGrow ==
    ASSUME NEW rs \in Seq(SuggestionRow(Target))
    PROVE  /\ Grown(rs, rs)
           /\ \A id : Grown(Dismissed(rs, id), rs) /\ DOMAIN Dismissed(rs, id) = DOMAIN rs
           /\ \A t \in Target : /\ Grown(InsertOpen(rs, t), rs)
                                /\ DOMAIN InsertOpen(rs, t) = DOMAIN rs \cup {Len(rs) + 1}
                                /\ InsertOpen(rs, t)[Len(rs) + 1] = [target |-> t, open |-> TRUE]
<1>1. Grown(rs, rs)
  BY DEF Grown
<1>2. ASSUME NEW id
      PROVE  Grown(Dismissed(rs, id), rs) /\ DOMAIN Dismissed(rs, id) = DOMAIN rs
  <2>1. CASE id \in DOMAIN rs
    <3>1. rs[id] \in SuggestionRow(Target)
      BY <2>1
    <3>2. [rs[id] EXCEPT !.open = FALSE] \in SuggestionRow(Target)
      BY <3>1 DEF SuggestionRow
    <3>3. Dismissed(rs, id) = [rs EXCEPT ![id] = [rs[id] EXCEPT !.open = FALSE]]
      BY <2>1 DEF Dismissed
    <3>4. /\ Dismissed(rs, id) \in Seq(SuggestionRow(Target))
          /\ DOMAIN Dismissed(rs, id) = DOMAIN rs
      BY <2>1, <3>2, <3>3
    <3>5. ASSUME NEW i \in DOMAIN rs
          PROVE  /\ Dismissed(rs, id)[i].target = rs[i].target
                 /\ Dismissed(rs, id)[i].open => rs[i].open
      <4>1. rs[i] \in SuggestionRow(Target)
        OBVIOUS
      <4>. QED
        BY <2>1, <3>1, <3>3, <4>1 DEF SuggestionRow
    <3>. QED
      BY <3>4, <3>5 DEF Grown
  <2>2. CASE id \notin DOMAIN rs
    BY <1>1, <2>2 DEF Dismissed
  <2>. QED
    BY <2>1, <2>2
<1>3. ASSUME NEW t \in Target
      PROVE  /\ Grown(InsertOpen(rs, t), rs)
             /\ DOMAIN InsertOpen(rs, t) = DOMAIN rs \cup {Len(rs) + 1}
             /\ InsertOpen(rs, t)[Len(rs) + 1] = [target |-> t, open |-> TRUE]
  <2>1. [target |-> t, open |-> TRUE] \in SuggestionRow(Target)
    BY DEF SuggestionRow
  <2>. QED
    BY <2>1 DEF Grown, InsertOpen
<1>. QED
  BY <1>1, <1>2, <1>3

LEMMA BlankJob == Blank \in Job
<1>1. (CHOOSE t \in Target : TRUE) \in Target
  BY AutoCleanAssumption
<1>. QED
  BY <1>1 DEF Blank, Job, Switch, Id

LEMMA JobFields ==
    ASSUME NEW j \in Job
    PROVE  /\ j.cands \subseteq Target /\ j.cur \in Target
           /\ j.fresh \subseteq Id /\ j.probe \subseteq Id /\ j.retry \subseteq Id
           /\ j.row \in Nat /\ j.used \in Nat /\ j.freed \in Nat
BY DEF Job

LEMMA JobTyped ==
    ASSUME NEW j \in Job
    PROVE  /\ \A s \in SUBSET Target : [j EXCEPT !.cands = s] \in Job
           /\ \A t \in Target : [j EXCEPT !.cur = t] \in Job
           /\ \A s \in SUBSET Id : [j EXCEPT !.fresh = s] \in Job
           /\ \A s \in SUBSET Id : [j EXCEPT !.probe = s] \in Job
           /\ \A s \in SUBSET Id : [j EXCEPT !.retry = s] \in Job
           /\ \A n \in Nat : [j EXCEPT !.row = n] \in Job
           /\ \A n \in Nat : [j EXCEPT !.used = n] \in Job
           /\ \A n \in Nat : [j EXCEPT !.added = n] \in Job
           /\ \A n \in Nat : [j EXCEPT !.reply = n] \in Job
           /\ \A n \in Nat : [j EXCEPT !.freed = n] \in Job
           /\ \A sw \in Switch : [j EXCEPT !.snap = sw] \in Job
           /\ \A r \in {"refused", "failed", "deleted"} : [j EXCEPT !.result = r] \in Job
<1>1. \A s \in SUBSET Target : [j EXCEPT !.cands = s] \in Job
  BY DEF Job
<1>2. \A t \in Target : [j EXCEPT !.cur = t] \in Job
  BY DEF Job
<1>3. \A s \in SUBSET Id : [j EXCEPT !.fresh = s] \in Job
  BY DEF Job
<1>4. \A s \in SUBSET Id : [j EXCEPT !.probe = s] \in Job
  BY DEF Job
<1>5. \A s \in SUBSET Id : [j EXCEPT !.retry = s] \in Job
  BY DEF Job
<1>6. \A n \in Nat : [j EXCEPT !.row = n] \in Job
  BY DEF Job
<1>7. \A n \in Nat : [j EXCEPT !.used = n] \in Job
  BY DEF Job
<1>8. \A n \in Nat : [j EXCEPT !.added = n] \in Job
  BY DEF Job
<1>9. \A n \in Nat : [j EXCEPT !.reply = n] \in Job
  BY DEF Job
<1>10. \A n \in Nat : [j EXCEPT !.freed = n] \in Job
  BY DEF Job
<1>11. \A sw \in Switch : [j EXCEPT !.snap = sw] \in Job
  BY DEF Job
<1>12. \A r \in {"refused", "failed", "deleted"} : [j EXCEPT !.result = r] \in Job
  BY DEF Job
<1>. QED
  BY <1>1, <1>2, <1>3, <1>4, <1>5, <1>6, <1>7, <1>8, <1>9, <1>10, <1>11, <1>12

(* What a door reads and writes has the shape of its variables. *)
LEMMA SightTyped == ASSUME TypeOK, Witness PROVE seen' \in [Doors -> Sight]
<1>1. Nothing \in Sight
  BY DEF Nothing, Sight
<1>2. ASSUME NEW s \in Sight, NEW w, NEW c PROVE Look(s, w, c) \in Sight
  <2>1. (s.on \/ On(c)) \in BOOLEAN
    BY Zenon
  <2>. QED
    BY <2>1 DEF Look, Sight
<1>. QED
  BY <1>1, <1>2 DEF Witness, TypeOK

LEMMA FreshCounted ==
    ASSUME TypeOK, IdsExist, NEW d \in Doors
    PROVE  Cardinality(job[d].fresh) \in Nat
<1>1. DOMAIN rows = 1..Len(rows) /\ Len(rows) \in Nat
  BY DEF TypeOK
<1>2. IsFiniteSet(DOMAIN rows)
  BY <1>1, FS_Interval
<1>3. job[d].fresh \subseteq DOMAIN rows
  BY DEF IdsExist
<1>. QED
  BY <1>2, <1>3, FS_Subset, FS_CardinalityType

LEMMA InHandTyped ==
    ASSUME TypeOK, IdsExist, NEW d \in Doors, pc[d] \in HasRow
    PROVE  InHand(d) \in Target
<1>1. job[d].row \in DOMAIN rows
  BY DEF IdsExist
<1>2. rows[job[d].row] \in SuggestionRow(Target)
  BY <1>1 DEF TypeOK
<1>. QED
  BY <1>2 DEF InHand, SuggestionRow

LEMMA KeepTyped ==
    ASSUME TypeOK, NEW d \in Doors, NEW j \in Job, Keep(d, j)
    PROVE  job' \in [Doors -> Job]
BY DEF TypeOK, Keep

LEMMA BoundsTyped ==
    ASSUME TypeOK, Event \/ Fault \/ NoFault
    PROVE  events' \in Nat /\ faults' \in Nat /\ crashes' \in Nat
BY DEF TypeOK, Event, Fault, NoFault, bounds

-----------------------------------------------------------------------------
LEMMA TypeStep ==
    ASSUME TypeOK, IdsExist, Ledger, Next
    PROVE  TypeOK'
<1>0. seen' \in [Doors -> Sight] /\ \A e \in Doors : job[e] \in Job
  BY SightTyped DEF Next, TypeOK
<1>1. ASSUME NEW t \in Target, Appear(t) \/ Die(t) \/ Revive(t) \/ Vanish(t)
      PROVE  TypeOK'
  <2>1. PICK from, to \in {"absent", "live", "stale"} : WorldMoves(t, from, to)
    <3>1. world[t] \in {"absent", "live", "stale"}
      BY DEF TypeOK
    <3>. QED
      BY <1>1, <3>1 DEF Appear, Die, Revive, Vanish
  <2>2. events' \in Nat /\ faults' \in Nat /\ crashes' \in Nat
    BY <1>1, BoundsTyped DEF Appear, Die, Revive, Vanish
  <2>3. world' \in [Target -> {"absent", "live", "stale"}]
    BY <2>1 DEF TypeOK, WorldMoves
  <2>. QED
    BY <1>0, <2>1, <2>2, <2>3 DEF TypeOK, WorldMoves
<1>2. ASSUME NEW id, UserDismiss(id) PROVE TypeOK'
  <2>1. rows' \in Seq(SuggestionRow(Target))
    BY <1>2, RowsGrow DEF UserDismiss, TypeOK, Grown
  <2>. QED
    BY <1>0, <1>2, <2>1 DEF TypeOK, UserDismiss, Event
<1>3. ASSUME ToggleOff \/ ToggleOn \/ ToggleAck PROVE TypeOK'
  <2>1. cfg' \in Switch
    BY <1>3 DEF TypeOK, ToggleOff, ToggleOn, ToggleAck, Switch
  <2>2. acking' \in BOOLEAN
    BY <1>3 DEF TypeOK, ToggleOff, ToggleOn, ToggleAck
  <2>. QED
    BY <1>0, <1>3, <2>1, <2>2
       DEF TypeOK, ToggleOff, ToggleOn, ToggleAck, Event, NoFault, bounds
<1>4. ASSUME Crash PROVE TypeOK'
  <2>1. cfg' \in Switch /\ acking' \in BOOLEAN
    BY <1>4, AutoCleanAssumption DEF Crash
  <2>2. pc' \in [Doors -> Labels] /\ job' \in [Doors -> Job]
    BY <1>4, BlankJob DEF Crash, Labels
  <2>. QED
    BY <1>0, <1>4, <2>1, <2>2 DEF TypeOK, Crash
<1>5. ASSUME NEW d \in Doors, NEW trigger \in Triggers[d], Request(d, trigger) PROVE TypeOK'
  <2>1. [Blank EXCEPT !.trigger = trigger] \in Job
    BY BlankJob, AutoCleanAssumption DEF Job
  <2>. QED
    BY <1>0, <1>5, <2>1 DEF TypeOK, Request, Goto, Keep, Labels, NoFault, bounds
<1>6. ASSUME NEW d \in Doors, Lock(d) PROVE TypeOK'
  BY <1>0, <1>6 DEF TypeOK, Lock, Goto, Labels, InTick, NoFault, bounds
<1>7. ASSUME NEW d \in Doors, Scan(d) PROVE TypeOK'
  <2>1. \A s \in SUBSET Target : [job[d] EXCEPT !.cands = s] \in Job
    BY <1>0, JobTyped
  <2>2. PICK j \in Job : Keep(d, j)
    BY <1>7, <2>1 DEF Scan
  <2>3. job' \in [Doors -> Job]
    BY <2>2, KeepTyped
  <2>4. events' \in Nat /\ faults' \in Nat /\ crashes' \in Nat
    BY <1>7, BoundsTyped DEF Scan
  <2>. QED
    BY <1>0, <1>7, <2>3, <2>4 DEF TypeOK, Scan, Goto, Labels, InTick
<1>8. ASSUME NEW d \in Doors, Dedupe(d) PROVE TypeOK'
  <2>1. \A t \in Target : /\ [job[d] EXCEPT !.cands = @ \ {t}] \in Job
                          /\ [[job[d] EXCEPT !.cands = @ \ {t}] EXCEPT !.cur = t] \in Job
    <3>1. \A t \in Target : job[d].cands \ {t} \in SUBSET Target
      BY <1>0, JobFields
    <3>. QED
      BY <1>0, <3>1, JobTyped
  <2>2. job[d].cands \subseteq Target
    BY <1>0, JobFields
  <2>3. PICK j \in Job : Keep(d, j)
    BY <1>8, <2>1, <2>2 DEF Dedupe
  <2>4. job' \in [Doors -> Job]
    BY <2>3, KeepTyped
  <2>5. events' \in Nat /\ faults' \in Nat /\ crashes' \in Nat
    BY <1>8, BoundsTyped DEF Dedupe
  <2>6. pc' \in [Doors -> Labels]
    BY <1>8 DEF TypeOK, Dedupe, Goto, Labels, InTick
  <2>. QED
    BY <1>0, <1>8, <2>4, <2>5, <2>6 DEF TypeOK, Dedupe
<1>9. ASSUME NEW d \in Doors, Insert(d) PROVE TypeOK'
  <2>1. job[d] \in Job /\ job[d].cur \in Target
    BY <1>0, JobFields
  <2>2. [job[d] EXCEPT !.fresh = @ \cup {Len(rows) + 1}] \in Job
    <3>1. Len(rows) + 1 \in Id
      BY DEF TypeOK, Id
    <3>2. job[d].fresh \cup {Len(rows) + 1} \in SUBSET Id
      BY <2>1, <3>1, JobFields
    <3>. QED
      BY <2>1, <3>2, JobTyped
  <2>3. job' \in [Doors -> Job]
    BY <1>9, <2>2 DEF TypeOK, Insert, Keep
  <2>4. rows' \in Seq(SuggestionRow(Target))
    BY <1>9, <2>1, RowsGrow DEF TypeOK, Insert, Grown
  <2>5. events' \in Nat /\ faults' \in Nat /\ crashes' \in Nat
    BY <1>9, BoundsTyped DEF Insert
  <2>. QED
    BY <1>0, <1>9, <2>3, <2>4, <2>5 DEF TypeOK, Insert, Goto, Labels, InTick
<1>10. ASSUME NEW d \in Doors, PersistDone(d) PROVE TypeOK'
  <2>1. Cardinality(job[d].fresh) \in Nat
    BY FreshCounted
  <2>2. [job[d] EXCEPT !.added = Cardinality(job[d].fresh)] \in Job
    BY <1>0, <2>1, JobTyped
  <2>3. job' \in [Doors -> Job]
    BY <1>10, <2>2, KeepTyped DEF PersistDone
  <2>. QED
    BY <1>0, <1>10, <2>1, <2>3
       DEF TypeOK, PersistDone, Goto, Labels, InTick, NoFault, bounds
<1>11. ASSUME NEW d \in Doors, Snapshot(d) PROVE TypeOK'
  <2>1. [job[d] EXCEPT !.snap = cfg] \in Job
    BY <1>0, JobTyped DEF TypeOK
  <2>2. job' \in [Doors -> Job]
    BY <1>11, <2>1, KeepTyped DEF Snapshot
  <2>. QED
    BY <1>0, <1>11, <2>2
       DEF TypeOK, Snapshot, Goto, Labels, InTick, NoFault, bounds
<1>12. ASSUME NEW d \in Doors, List(d) PROVE TypeOK'
  <2>1. Retryable(d) \subseteq Id
    BY DEF TypeOK, Retryable, ListOpen, Id
  <2>2. [job[d] EXCEPT !.probe = Retryable(d)] \in Job
    BY <1>0, <2>1, JobTyped
  <2>3. job' \in [Doors -> Job]
    <3>1. CASE UNCHANGED job
      BY <3>1 DEF TypeOK
    <3>2. CASE Keep(d, [job[d] EXCEPT !.probe = Retryable(d)])
      BY <2>2, <3>2, KeepTyped
    <3>. QED
      BY <1>12, <3>1, <3>2 DEF List
  <2>5. events' \in Nat /\ faults' \in Nat /\ crashes' \in Nat
    BY <1>12, BoundsTyped DEF List
  <2>. QED
    BY <1>0, <1>12, <2>3, <2>5 DEF TypeOK, List, Goto, Labels, InTick
<1>13. ASSUME NEW d \in Doors, Probe(d) PROVE TypeOK'
  <2>1. ASSUME NEW id \in job[d].probe
        PROVE  /\ [[job[d] EXCEPT !.probe = @ \ {id}] EXCEPT !.retry = @ \cup {id}] \in Job
               /\ [[job[d] EXCEPT !.probe = @ \ {id}] EXCEPT !.row = id] \in Job
    <3>1. /\ job[d].probe \ {id} \in SUBSET Id /\ id \in Nat
          /\ job[d].retry \cup {id} \in SUBSET Id
      BY <1>0, JobFields DEF Id
    <3>2. [job[d] EXCEPT !.probe = @ \ {id}] \in Job
      BY <1>0, <3>1, JobTyped
    <3>3. [job[d] EXCEPT !.probe = @ \ {id}].retry = job[d].retry
      BY <1>0 DEF Job
    <3>. QED
      BY <3>1, <3>2, <3>3, JobTyped
  <2>2. job' \in [Doors -> Job]
    <3>1. CASE UNCHANGED job
      BY <3>1 DEF TypeOK
    <3>2. CASE \E j \in Job : Keep(d, j)
      BY <3>2, KeepTyped
    <3>. QED
      BY <1>13, <2>1, <3>1, <3>2 DEF Probe
  <2>. QED
    BY <1>0, <1>13, <2>2 DEF TypeOK, Probe, Goto, Labels, InTick, NoFault, bounds
<1>14. ASSUME NEW d \in Doors, DropGone(d) PROVE TypeOK'
  <2>1. rows' \in Seq(SuggestionRow(Target))
    BY <1>14, RowsGrow DEF TypeOK, DropGone, DropRow, Grown
  <2>. QED
    BY <1>0, <1>14, <2>1 DEF TypeOK, DropGone, Goto, Labels, InTick, NoFault, Fault, bounds
<1>15. ASSUME NEW d \in Doors, Evaluate(d) PROVE TypeOK'
  <2>1. ASSUME NEW id \in job[d].fresh \cup job[d].retry
        PROVE  /\ Charge(d, id) \in Nat
               /\ [job[d] EXCEPT !.fresh = @ \ {id}, !.retry = @ \ {id}, !.row = id] \in Job
               /\ [[job[d] EXCEPT !.fresh = @ \ {id}, !.retry = @ \ {id}, !.row = id]
                     EXCEPT !.used = @ + Charge(d, id)] \in Job
    <3>1. id \in DOMAIN rows /\ id \in Nat
      BY DEF IdsExist, TypeOK
    <3>2. Charge(d, id) \in Nat
      <4>1. rows[id] \in SuggestionRow(Target)
        BY <3>1 DEF TypeOK
      <4>2. Size[rows[id].target] \in Nat
        BY <4>1, AutoCleanAssumption DEF SuggestionRow
      <4>. QED
        BY <4>2 DEF Charge
    <3>3. [job[d] EXCEPT !.fresh = @ \ {id}, !.retry = @ \ {id}, !.row = id] \in Job
      <4>1. job[d].fresh \ {id} \in SUBSET Id /\ job[d].retry \ {id} \in SUBSET Id
        BY <1>0, JobFields
      <4>2. [job[d] EXCEPT !.fresh = @ \ {id}] \in Job
        BY <1>0, <4>1, JobTyped
      <4>3. [job[d] EXCEPT !.fresh = @ \ {id}].retry = job[d].retry
        BY <1>0 DEF Job
      <4>4. [[job[d] EXCEPT !.fresh = @ \ {id}] EXCEPT !.retry = @ \ {id}] \in Job
        BY <4>1, <4>2, <4>3, JobTyped
      <4>5. \A j \in Job : [j EXCEPT !.row = id] \in Job
        BY <3>1, JobTyped
      <4>. QED
        BY <4>4, <4>5
    <3>4. \A j \in Job, n \in Nat : [j EXCEPT !.used = @ + n] \in Job
      <4>1. \A j \in Job, n \in Nat : j.used + n \in Nat
        BY JobFields
      <4>. QED
        BY <4>1, JobTyped
    <3>. QED
      BY <3>2, <3>3, <3>4
  <2>2. job' \in [Doors -> Job]
    <3>1. CASE UNCHANGED job
      BY <3>1 DEF TypeOK
    <3>2. CASE \E j \in Job : Keep(d, j)
      BY <3>2, KeepTyped
    <3>. QED
      BY <1>15, <2>1, <3>1, <3>2 DEF Evaluate
  <2>. QED
    BY <1>0, <1>15, <2>2 DEF TypeOK, Evaluate, Goto, Labels, InTick, NoFault, bounds
<1>16. ASSUME NEW d \in Doors, Record(d) PROVE TypeOK'
  <2>1. InHand(d) \in Target
    BY <1>16, InHandTyped DEF Record, HasRow
  <2>2. audit' \in [Target -> [open: Nat, deleted: Nat, errored: Nat]]
    <3>1. Pivot(InHand(d)) \in [Target -> [open: Nat, deleted: Nat, errored: Nat]]
      <4>1. audit[InHand(d)] \in [open: Nat, deleted: Nat, errored: Nat]
        BY <2>1 DEF TypeOK
      <4>2. [audit[InHand(d)] EXCEPT !.open = @ + 1]
               \in [open: Nat, deleted: Nat, errored: Nat]
        BY <4>1
      <4>. QED
        BY <2>1, <4>2 DEF TypeOK, Pivot
    <3>2. audit' = Pivot(InHand(d)) \/ audit' = audit
      BY <1>16 DEF Record
    <3>. QED
      BY <3>1, <3>2 DEF TypeOK
  <2>3. events' \in Nat /\ faults' \in Nat /\ crashes' \in Nat
    BY <1>16, BoundsTyped DEF Record
  <2>4. pc' \in [Doors -> Labels]
    BY <1>16 DEF TypeOK, Record, Goto, Labels, InTick
  <2>. QED
    BY <1>0, <1>16, <2>2, <2>3, <2>4 DEF TypeOK, Record
<1>17. ASSUME NEW d \in Doors, Reprove(d) PROVE TypeOK'
  <2>1. \A r \in {"refused", "deleted"} : [job[d] EXCEPT !.result = r] \in Job
    BY <1>0, JobTyped
  <2>2. job' \in [Doors -> Job]
    <3>1. CASE UNCHANGED job
      BY <3>1 DEF TypeOK
    <3>2. CASE \E j \in Job : Keep(d, j)
      BY <3>2, KeepTyped
    <3>. QED
      BY <1>17, <2>1, <3>1, <3>2 DEF Reprove
  <2>. QED
    BY <1>0, <1>17, <2>2 DEF TypeOK, Reprove, Goto, Labels, InTick, NoFault, bounds
<1>18. ASSUME NEW d \in Doors, Remove(d) PROVE TypeOK'
  <2>1. InHand(d) \in Target
    BY <1>18, InHandTyped DEF Remove, HasRow
  <2>2. ASSUME NEW r \in {"refused", "failed", "deleted"}, NEW n \in Nat
        PROVE  [job[d] EXCEPT !.result = r, !.freed = @ + n] \in Job
    <3>1. \A j \in Job : [j EXCEPT !.result = r] \in Job
      BY JobTyped
    <3>2. \A j \in Job : [j EXCEPT !.freed = @ + n] \in Job
      <4>1. \A j \in Job : j.freed + n \in Nat
        BY JobFields
      <4>. QED
        BY <4>1, JobTyped
    <3>3. [job[d] EXCEPT !.result = r, !.freed = @ + n]
             = [[job[d] EXCEPT !.result = r] EXCEPT !.freed = @ + n]
      OBVIOUS
    <3>. QED
      BY <3>1, <3>2, <3>3 DEF TypeOK
  <2>3. Size[InHand(d)] \in Nat
    BY <2>1, AutoCleanAssumption
  <2>4. PICK j \in Job : Keep(d, j)
    BY <1>18, <2>2, <2>3 DEF Remove
  <2>5. job' \in [Doors -> Job]
    BY <2>4, KeepTyped
  <2>6. /\ [world EXCEPT ![InHand(d)] = "absent"] \in [Target -> {"absent", "live", "stale"}]
        /\ [removed EXCEPT ![InHand(d)] = @ + 1] \in [Target -> Nat]
    BY <2>1 DEF TypeOK
  <2>7. /\ world' \in [Target -> {"absent", "live", "stale"}]
        /\ removed' \in [Target -> Nat]
    BY <1>18, <2>6 DEF TypeOK, Remove
  <2>8. events' \in Nat /\ faults' \in Nat /\ crashes' \in Nat
    BY <1>18, BoundsTyped DEF Remove
  <2>9. pc' \in [Doors -> Labels]
    BY <1>18 DEF TypeOK, Remove, Goto, Labels, InTick
  <2>. QED
    BY <1>0, <1>18, <2>5, <2>7, <2>8, <2>9 DEF TypeOK, Remove
<1>19. ASSUME NEW d \in Doors, Settle(d) PROVE TypeOK'
  <2>1. InHand(d) \in Target
    BY <1>19, InHandTyped DEF Settle, HasRow
  <2>2. audit[InHand(d)].open - 1 \in Nat
    BY <1>19, <2>1 DEF Ledger, Settle, TypeOK
  <2>3. \A r : Closed(InHand(d), r) \in [Target -> [open: Nat, deleted: Nat, errored: Nat]]
    <3>1. ASSUME NEW a \in [open: Nat, deleted: Nat, errored: Nat], a.open - 1 \in Nat
          PROVE  /\ [a EXCEPT !.open = @ - 1] \in [open: Nat, deleted: Nat, errored: Nat]
                 /\ [[a EXCEPT !.open = @ - 1] EXCEPT !.deleted = @ + 1]
                       \in [open: Nat, deleted: Nat, errored: Nat]
                 /\ [[a EXCEPT !.open = @ - 1] EXCEPT !.errored = @ + 1]
                       \in [open: Nat, deleted: Nat, errored: Nat]
      <4>1. \A b \in [open: Nat, deleted: Nat, errored: Nat] :
               /\ [b EXCEPT !.deleted = @ + 1] \in [open: Nat, deleted: Nat, errored: Nat]
               /\ [b EXCEPT !.errored = @ + 1] \in [open: Nat, deleted: Nat, errored: Nat]
        OBVIOUS
      <4>2. [a EXCEPT !.open = @ - 1] \in [open: Nat, deleted: Nat, errored: Nat]
        BY <3>1
      <4>. QED
        BY <4>1, <4>2
    <3>2. audit[InHand(d)] \in [open: Nat, deleted: Nat, errored: Nat]
      BY <2>1 DEF TypeOK
    <3>. QED
      BY <2>1, <2>2, <3>1, <3>2 DEF TypeOK, Closed
  <2>4. audit' \in [Target -> [open: Nat, deleted: Nat, errored: Nat]]
    BY <1>19, <2>3 DEF TypeOK, Settle
  <2>. QED
    <3>1. events' \in Nat /\ faults' \in Nat /\ crashes' \in Nat
      BY <1>19, BoundsTyped DEF Settle
    <3>2. pc' \in [Doors -> Labels]
      BY <1>19 DEF TypeOK, Settle, Goto, Labels, InTick
    <3>. QED
      BY <1>0, <1>19, <2>4, <3>1, <3>2 DEF TypeOK, Settle
<1>20. ASSUME NEW d \in Doors, Dismiss(d) PROVE TypeOK'
  <2>1. rows' \in Seq(SuggestionRow(Target))
    BY <1>20, RowsGrow DEF TypeOK, Dismiss, Grown
  <2>. QED
    BY <1>0, <1>20, <2>1 DEF TypeOK, Dismiss, Goto, Labels, InTick, NoFault, Fault, bounds
<1>21. ASSUME NEW d \in Doors, Unlock(d) \/ Reply(d) \/ Return(d) PROVE TypeOK'
  <2>1. [job[d] EXCEPT !.reply = lastTickNew] \in Job
    BY <1>0, JobTyped DEF TypeOK
  <2>2. job' \in [Doors -> Job]
    <3>1. CASE UNCHANGED job
      BY <3>1 DEF TypeOK
    <3>2. CASE \E j \in Job : Keep(d, j)
      BY <3>2, KeepTyped
    <3>. QED
      BY <1>21, <2>1, <3>1, <3>2, BlankJob DEF Unlock, Reply, Return
  <2>. QED
    BY <1>0, <1>21, <2>2
       DEF TypeOK, Unlock, Reply, Return, Goto, Labels, NoFault, bounds
<1>. QED
  BY <1>1, <1>2, <1>3, <1>4, <1>5, <1>6, <1>7, <1>8, <1>9, <1>10, <1>11, <1>12, <1>13,
     <1>14, <1>15, <1>16, <1>17, <1>18, <1>19, <1>20, <1>21
     DEF Next, Environment, Step

-----------------------------------------------------------------------------
(* What a step leaves alone. *)
Moves(d) == Lock(d) \/ Step(d) \/ \E trigger \in Triggers[d] : Request(d, trigger)

LEMMA OthersStay ==
    ASSUME TypeOK, NEW d \in Doors, Moves(d)
    PROVE  \A e \in Doors \ {d} : pc'[e] = pc[e] /\ job'[e] = job[e]
<1>1. (\E l : Goto(d, l)) \/ UNCHANGED pc
  BY DEF Moves, Step, Lock, Request, Scan, Dedupe, Insert, PersistDone, Snapshot, List, Probe,
         DropGone, Evaluate, Record, Reprove, Remove, Settle, Dismiss, Unlock, Reply, Return
<1>2. (\E j : Keep(d, j)) \/ UNCHANGED job
  BY DEF Moves, Step, Lock, Request, Scan, Dedupe, Insert, PersistDone, Snapshot, List, Probe,
         DropGone, Evaluate, Record, Reprove, Remove, Settle, Dismiss, Unlock, Reply, Return
<1>. QED
  BY <1>1, <1>2 DEF TypeOK, Goto, Keep

LEMMA RowsStay ==
    ASSUME TypeOK, Next
    PROVE  Grown(rows', rows)
<1>1. \/ UNCHANGED rows
      \/ \E id : rows' = Dismissed(rows, id)
      \/ \E d \in Doors : rows' = InsertOpen(rows, job[d].cur)
  <2>1. CASE Environment
    BY <2>1 DEF Environment, Appear, Die, Revive, Vanish, WorldMoves, UserDismiss, ToggleOff,
                ToggleOn, ToggleAck, Crash
  <2>2. ASSUME NEW d \in Doors, Moves(d)
        PROVE  \/ UNCHANGED rows
               \/ \E id : rows' = Dismissed(rows, id)
               \/ rows' = InsertOpen(rows, job[d].cur)
    BY <2>2 DEF Moves, Step, Lock, Request, Scan, Dedupe, Insert, PersistDone, Snapshot, List,
                Probe, DropGone, DropRow, Evaluate, Record, Reprove, Remove, Settle, Dismiss,
                Unlock, Reply, Return
  <2>. QED
    BY <2>1, <2>2 DEF Next, Moves
<1>2. rows \in Seq(SuggestionRow(Target)) /\ \A d \in Doors : job[d].cur \in Target
  BY DEF TypeOK, Job
<1>. QED
  BY <1>1, <1>2, RowsGrow

LEMMA InHandStays ==
    ASSUME TypeOK, IdsExist, Grown(rows', rows),
           NEW d \in Doors, pc[d] \in HasRow, job'[d].row = job[d].row
    PROVE  InHand(d)' = InHand(d)
BY DEF IdsExist, Grown, InHand

(* Either a door moves, or the environment does and no door's variables    *)
(* change but by the kill, which resets them all.                          *)
LEMMA Movers ==
    ASSUME Next
    PROVE  \/ \E d \in Doors : Moves(d)
           \/ Crash
           \/ Environment /\ UNCHANGED <<pc, job, holder, audit, removed>>
BY DEF Next, Environment, Moves, Appear, Die, Revive, Vanish, WorldMoves, UserDismiss,
       ToggleOff, ToggleOn, ToggleAck

-----------------------------------------------------------------------------
(* A tick's step by its own door finds every other door outside its tick.  *)
LEMMA Alone ==
    ASSUME Mutex, NEW d \in Doors, pc[d] \in InTick
    PROVE  \A e \in Doors \ {d} : pc[e] \notin InTick
BY DEF Mutex

LEMMA MutexStep ==
    ASSUME TypeOK, Mutex, Next
    PROVE  Mutex'
<1>1. ASSUME NEW d \in Doors, Moves(d) PROVE Mutex'
  <2>1. \A e \in Doors \ {d} : pc'[e] = pc[e]
    BY <1>1, OthersStay
  <2>2. CASE Lock(d)
    BY <2>1, <2>2, AutoCleanAssumption DEF Lock, LockFree, Mutex, TypeOK
  <2>3. CASE Unlock(d)
    <3>1. pc[d] = "unlock" /\ pc'[d] \notin InTick
      BY <2>3 DEF Unlock, Goto, TypeOK, InTick
    <3>2. \A e \in Doors \ {d} : pc[e] \notin InTick
      BY <3>1, Alone DEF InTick
    <3>. QED
      BY <2>1, <3>1, <3>2 DEF Mutex
  <2>4. CASE pc[d] \in InTick /\ UNCHANGED holder
    BY <2>1, <2>4 DEF Mutex
  <2>5. CASE pc'[d] \notin InTick /\ UNCHANGED holder
    BY <2>1, <2>5 DEF Mutex
  <2>6. CASE Reply(d) \/ Return(d) \/ \E trigger \in Triggers[d] : Request(d, trigger)
    <3>1. pc'[d] \notin InTick /\ UNCHANGED holder
      BY <2>6 DEF Reply, Return, Request, Goto, InTick, TypeOK
    <3>. QED
      BY <2>5, <3>1
  <2>7. CASE Step(d) /\ ~Unlock(d) /\ ~Reply(d) /\ ~Return(d)
    <3>1. pc[d] \in InTick /\ UNCHANGED holder
      BY <2>7 DEF Step, InTick, Scan, Dedupe, Insert, PersistDone, Snapshot, List, Probe,
                  DropGone, Evaluate, Record, Reprove, Remove, Settle, Dismiss
    <3>. QED
      BY <2>4, <3>1
  <2>. QED
    BY <1>1, <2>2, <2>3, <2>6, <2>7 DEF Moves, Step
<1>2. CASE Crash
  BY <1>2 DEF Crash, Mutex, InTick
<1>3. CASE Environment /\ UNCHANGED <<pc, job, holder, audit, removed>>
  BY <1>3 DEF Mutex
<1>. QED
  BY <1>1, <1>2, <1>3, Movers

LEMMA Kept ==
    ASSUME TypeOK, NEW d \in Doors, NEW j, Keep(d, j) PROVE job'[d] = j
BY DEF TypeOK, Keep

LEMMA IdsExistStep ==
    ASSUME TypeOK, IdsExist, Next
    PROVE  IdsExist'
<1>0. DOMAIN rows \subseteq DOMAIN rows' /\ \A id \in DOMAIN rows : id \in Nat
  BY RowsStay DEF Grown, TypeOK
<1>. DEFINE Exist(e) == /\ job[e].fresh \cup job[e].probe \cup job[e].retry \subseteq DOMAIN rows
                        /\ pc[e] \in HasRow => job[e].row \in DOMAIN rows
<1>1. ASSUME NEW e \in Doors, pc'[e] = pc[e], job'[e] = job[e] PROVE Exist(e)'
  BY <1>0, <1>1 DEF IdsExist
<1>2. ASSUME NEW d \in Doors, Moves(d) PROVE IdsExist'
  <2>1. \A e \in Doors \ {d} : Exist(e)'
    BY <1>1, <1>2, OthersStay
  <2>0. /\ Exist(d) /\ d \in DOMAIN pc /\ d \in DOMAIN job
        /\ job[d] \in Job
    BY DEF IdsExist, TypeOK
  <2>. SUFFICES Exist(d)'
    BY <2>1 DEF IdsExist
  <2>2. CASE Lock(d)
    BY <2>0, <2>2, <1>0 DEF Lock, Goto, HasRow
  <2>3. CASE \E trigger \in Triggers[d] : Request(d, trigger)
    <3>1. PICK trigger : Keep(d, [Blank EXCEPT !.trigger = trigger])
      BY <2>3 DEF Request
    <3>2. job'[d] = [Blank EXCEPT !.trigger = trigger]
      BY <3>1, Kept
    <3>3. pc'[d] \notin HasRow
      BY <2>0, <2>3 DEF Request, Goto, HasRow
    <3>. QED
      BY <3>2, <3>3 DEF Blank
  <2>4. CASE Scan(d)
    <3>1. PICK s : Keep(d, [job[d] EXCEPT !.cands = s])
      BY <2>4 DEF Scan
    <3>2. job'[d] = [job[d] EXCEPT !.cands = s]
      BY <3>1, Kept
    <3>3. pc'[d] \notin HasRow
      BY <2>0, <2>4 DEF Scan, Goto, HasRow
    <3>. QED
      BY <2>0, <3>2, <3>3, <1>0 DEF Job
  <2>5. CASE Dedupe(d)
    <3>1. PICK s, t : \/ Keep(d, [job[d] EXCEPT !.cands = s])
                      \/ Keep(d, [[job[d] EXCEPT !.cands = s] EXCEPT !.cur = t])
      BY <2>5 DEF Dedupe
    <3>2. \/ job'[d] = [job[d] EXCEPT !.cands = s]
          \/ job'[d] = [[job[d] EXCEPT !.cands = s] EXCEPT !.cur = t]
      BY <3>1, Kept
    <3>3. pc'[d] \notin HasRow
      BY <2>0, <2>5 DEF Dedupe, Goto, HasRow
    <3>. QED
      BY <2>0, <3>2, <3>3, <1>0 DEF Job
  <2>6. CASE Insert(d)
    <3>1. Len(rows) + 1 \in DOMAIN InsertOpen(rows, job[d].cur)
      <4>1. rows \in Seq(SuggestionRow(Target)) /\ job[d].cur \in Target
        BY <2>0 DEF TypeOK, Job
      <4>2. DOMAIN InsertOpen(rows, job[d].cur) = DOMAIN rows \cup {Len(rows) + 1}
        BY <4>1, RowsGrow
      <4>. QED
        BY <4>2
    <3>2. pc'[d] \notin HasRow
      BY <2>0, <2>6 DEF Insert, Goto, HasRow
    <3>3. CASE Keep(d, [job[d] EXCEPT !.fresh = @ \cup {Len(rows) + 1}])
               /\ rows' = InsertOpen(rows, job[d].cur)
      BY <2>0, <3>1, <3>2, <3>3, <1>0 DEF Keep, Job
    <3>. QED
      BY <2>0, <2>6, <3>2, <3>3, <1>0 DEF Insert
  <2>7. CASE PersistDone(d) \/ Snapshot(d)
    BY <2>0, <2>7, <1>0 DEF PersistDone, Snapshot, Goto, Keep, HasRow, Job
  <2>8. CASE List(d)
    <3>1. Retryable(d) \subseteq DOMAIN rows
      BY DEF Retryable, ListOpen
    <3>. QED
      BY <2>0, <2>8, <3>1, <1>0 DEF List, Goto, Keep, HasRow, Job
  <2>9. CASE Probe(d)
    <3>1. CASE UNCHANGED job /\ pc'[d] \notin HasRow
      BY <2>0, <3>1, <1>0
    <3>2. CASE \E id \in job[d].probe :
                  Keep(d, [[job[d] EXCEPT !.probe = @ \ {id}] EXCEPT !.retry = @ \cup {id}])
                  /\ UNCHANGED pc
      <4>1. PICK id \in job[d].probe :
               job'[d] = [[job[d] EXCEPT !.probe = @ \ {id}] EXCEPT !.retry = @ \cup {id}]
        BY <3>2, Kept
      <4>2. pc'[d] \notin HasRow
        BY <2>9, <3>2 DEF Probe, HasRow
      <4>3. id \in DOMAIN rows
        BY <2>0, <4>1
      <4>. QED
        BY <2>0, <4>1, <4>2, <4>3, <1>0 DEF Job
    <3>3. CASE \E id \in job[d].probe :
                  Keep(d, [[job[d] EXCEPT !.probe = @ \ {id}] EXCEPT !.row = id])
      <4>1. PICK id \in job[d].probe :
               job'[d] = [[job[d] EXCEPT !.probe = @ \ {id}] EXCEPT !.row = id]
        BY <3>3, Kept
      <4>2. id \in DOMAIN rows
        BY <2>0, <4>1
      <4>. QED
        BY <2>0, <4>1, <4>2, <1>0 DEF Job
    <3>. QED
      BY <2>0, <2>9, <3>1, <3>2, <3>3 DEF Probe, Goto, HasRow
  <2>10. CASE Evaluate(d)
    <3>1. CASE UNCHANGED job /\ pc'[d] \notin HasRow
      BY <2>0, <3>1, <1>0
    <3>2. CASE \E id \in job[d].fresh \cup job[d].retry : \E n :
                  \/ Keep(d, [job[d] EXCEPT !.fresh = @ \ {id}, !.retry = @ \ {id}, !.row = id])
                  \/ Keep(d, [[job[d] EXCEPT !.fresh = @ \ {id}, !.retry = @ \ {id},
                                             !.row = id] EXCEPT !.used = n])
      <4>1. PICK id, n :
               /\ id \in job[d].fresh \cup job[d].retry
               /\ \/ job'[d] = [job[d] EXCEPT !.fresh = @ \ {id}, !.retry = @ \ {id}, !.row = id]
                  \/ job'[d] = [[job[d] EXCEPT !.fresh = @ \ {id}, !.retry = @ \ {id},
                                               !.row = id] EXCEPT !.used = n]
        BY <3>2, Kept
      <4>2. id \in DOMAIN rows
        <5>1. id \in job[d].fresh \cup job[d].retry
          BY <4>1, Zenon
        <5>. QED
          BY <2>0, <5>1
      <4>3. job'[d].row = id /\ job'[d].fresh \subseteq job[d].fresh
            /\ job'[d].probe = job[d].probe /\ job'[d].retry \subseteq job[d].retry
        <5>1. job[d] \in Job
          BY <2>0
        <5>2. CASE job'[d] = [job[d] EXCEPT !.fresh = @ \ {id}, !.retry = @ \ {id}, !.row = id]
          BY <5>1, <5>2 DEF Job
        <5>3. CASE job'[d] = [[job[d] EXCEPT !.fresh = @ \ {id}, !.retry = @ \ {id},
                                             !.row = id] EXCEPT !.used = n]
          BY <5>1, <5>3 DEF Job
        <5>. QED
          BY <4>1, <5>2, <5>3
      <4>. QED
        BY <2>0, <4>2, <4>3, <1>0
    <3>. QED
      BY <2>0, <2>10, <3>1, <3>2 DEF Evaluate, Goto, HasRow
  <2>11. CASE DropGone(d) \/ Record(d) \/ Settle(d) \/ Dismiss(d)
    <3>1. UNCHANGED job /\ pc[d] \in HasRow
      BY <2>11 DEF DropGone, Record, Settle, Dismiss, HasRow
    <3>. QED
      BY <2>0, <3>1, <1>0
  <2>12. CASE Reprove(d) \/ Remove(d)
    <3>1. pc[d] \in HasRow
      BY <2>12 DEF Reprove, Remove, HasRow
    <3>2. job'[d].fresh = job[d].fresh /\ job'[d].probe = job[d].probe
          /\ job'[d].retry = job[d].retry /\ job'[d].row = job[d].row
      <4>1. \/ UNCHANGED job
            \/ \E rr : Keep(d, [job[d] EXCEPT !.result = rr])
            \/ \E rr, n : Keep(d, [job[d] EXCEPT !.result = rr, !.freed = @ + n])
        BY <2>12 DEF Reprove, Remove
      <4>2. \/ UNCHANGED job
            \/ \E rr : job'[d] = [job[d] EXCEPT !.result = rr]
            \/ \E rr, n : job'[d] = [job[d] EXCEPT !.result = rr, !.freed = @ + n]
        BY <4>1, Kept
      <4>. QED
        BY <2>0, <4>2 DEF Job
    <3>. QED
      BY <2>0, <3>1, <3>2, <1>0
  <2>13. CASE Unlock(d) \/ Reply(d) \/ Return(d)
    BY <2>0, <2>13, <1>0 DEF Unlock, Reply, Return, Goto, Keep, Blank, HasRow, Job
  <2>. QED
    BY <1>2, <2>1, <2>2, <2>3, <2>4, <2>5, <2>6, <2>7, <2>8, <2>9, <2>10, <2>11, <2>12, <2>13
       DEF Moves, Step
<1>3. CASE Crash
  BY <1>3, <1>0 DEF Crash, IdsExist, Blank, HasRow
<1>4. CASE Environment /\ UNCHANGED <<pc, job, holder, audit, removed>>
  BY <1>0, <1>4 DEF IdsExist
<1>. QED
  BY <1>2, <1>3, <1>4, Movers

LEMMA DedupedStep ==
    ASSUME TypeOK, Mutex, Deduped, Next
    PROVE  Deduped'
<1>0. rows \in Seq(SuggestionRow(Target)) /\ \A e \in Doors : job[e].cur \in Target
  BY DEF TypeOK, Job
(* Dismissing opens nothing. *)
<1>1. ASSUME NEW id, rows' = Dismissed(rows, id) \/ rows' = rows
      PROVE  OneOpenRow' /\ \A t : HasOpen(rows', t) => HasOpen(rows, t)
  <2>1. Grown(rows', rows) /\ DOMAIN rows' = DOMAIN rows
    BY <1>0, <1>1, RowsGrow
  <2>. QED
    BY <2>1 DEF Grown, Deduped, OneOpenRow, HasOpen, ListOpen
<1>2. ASSUME NEW e \in Doors, pc'[e] = "insert" => pc[e] = "insert" /\ job'[e] = job[e],
             \A t : HasOpen(rows', t) => HasOpen(rows, t)
      PROVE  pc'[e] = "insert" => ~HasOpen(rows', job'[e].cur)
  BY <1>2 DEF Deduped
<1>3. ASSUME NEW d \in Doors, Insert(d) PROVE Deduped'
  <2>0. pc[d] = "insert" /\ Moves(d)
    BY <1>3 DEF Insert, Moves, Step
  <2>1. \A e \in Doors : pc'[e] # "insert"
    <3>1. \A e \in Doors \ {d} : pc[e] # "insert"
      BY <2>0, Alone DEF InTick
    <3>2. pc'[d] # "insert"
      BY <1>3 DEF Insert, Goto, TypeOK
    <3>. QED
      BY <2>0, <3>1, <3>2, OthersStay
  <2>2. CASE rows' = rows
    BY <2>1, <2>2, <1>1 DEF Deduped
  <2>3. CASE rows' = InsertOpen(rows, job[d].cur)
    <3>1. /\ DOMAIN rows' = DOMAIN rows \cup {Len(rows) + 1}
          /\ rows'[Len(rows) + 1] = [target |-> job[d].cur, open |-> TRUE]
          /\ Grown(rows', rows)
      BY <1>0, <2>3, RowsGrow
    <3>2. ~HasOpen(rows, job[d].cur)
      BY <2>0 DEF Deduped
    <3>. DEFINE new == Len(rows) + 1
    <3>3. \A x \in ListOpen(rows') : x = new \/ x \in ListOpen(rows)
      BY <3>1 DEF ListOpen, Grown
    <3>4. \A x \in ListOpen(rows) : /\ rows'[x].target = rows[x].target
                                    /\ rows[x].target # job[d].cur
      BY <3>1, <3>2 DEF ListOpen, Grown, HasOpen
    <3>5. rows'[new].target = job[d].cur
      BY <3>1
    <3>6. OneOpenRow'
      <4>. HIDE DEF new
      <4>. QED
        BY <3>3, <3>4, <3>5 DEF Deduped, OneOpenRow
    <3>. QED
      BY <2>1, <3>6 DEF Deduped
  <2>. QED
    BY <1>3, <2>2, <2>3 DEF Insert
<1>4. ASSUME NEW d \in Doors, Moves(d), ~Insert(d) PROVE Deduped'
  <2>1. \E id : rows' = Dismissed(rows, id) \/ rows' = rows
    BY <1>4 DEF Moves, Step, Lock, Request, Scan, Dedupe, PersistDone, Snapshot, List, Probe,
                DropGone, DropRow, Evaluate, Record, Reprove, Remove, Settle, Dismiss,
                Unlock, Reply, Return
  <2>2. OneOpenRow' /\ \A t : HasOpen(rows', t) => HasOpen(rows, t)
    BY <2>1, <1>1
  <2>3. \A e \in Doors \ {d} : pc'[e] = "insert" => ~HasOpen(rows', job'[e].cur)
    BY <1>2, <1>4, <2>2, OthersStay
  <2>4. pc'[d] = "insert" => ~HasOpen(rows', job'[d].cur)
    <3>1. CASE Dedupe(d)
      <4>1. UNCHANGED rows
        BY <3>1 DEF Dedupe
      <4>2. pc[d] = "persist"
        BY <3>1 DEF Dedupe
      <4>3. ASSUME pc'[d] = "insert"
            PROVE  \E t \in job[d].cands : \E s :
                      /\ ~HasOpen(rows, t)
                      /\ Keep(d, [[job[d] EXCEPT !.cands = s] EXCEPT !.cur = t])
        BY <3>1, <4>2, <4>3 DEF Dedupe
      <4>4. ASSUME NEW t \in job[d].cands, NEW s,
                   Keep(d, [[job[d] EXCEPT !.cands = s] EXCEPT !.cur = t])
            PROVE  job'[d].cur = t
        <5>1. job'[d] = [[job[d] EXCEPT !.cands = s] EXCEPT !.cur = t]
          BY <4>4, Kept
        <5>2. job[d] \in Job
          BY DEF TypeOK
        <5>. QED
          BY <5>1, <5>2 DEF Job
      <4>. QED
        BY <4>1, <4>3, <4>4
    <3>2. CASE ~Dedupe(d)
      <4>1. \/ \E l \in (Labels \ {"insert"}) : Goto(d, l)
            \/ pc[d] # "insert" /\ UNCHANGED pc
        BY <1>4, <3>2
           DEF Moves, Step, Lock, Request, Scan, PersistDone, Snapshot, List, Probe,
               DropGone, Evaluate, Record, Reprove, Remove, Settle, Dismiss, Unlock,
               Reply, Return, Labels, InTick
      <4>. QED
        BY <4>1 DEF Goto, TypeOK
    <3>. QED
      BY <3>1, <3>2
  <2>. QED
    BY <2>2, <2>3, <2>4 DEF Deduped
<1>5. CASE Crash
  BY <1>1, <1>5 DEF Crash, Deduped
<1>6. CASE Environment /\ UNCHANGED <<pc, job, holder, audit, removed>>
  <2>1. \E id : rows' = Dismissed(rows, id) \/ rows' = rows
    BY <1>6 DEF Environment, Appear, Die, Revive, Vanish, WorldMoves, UserDismiss,
                ToggleOff, ToggleOn, ToggleAck, Crash
  <2>. QED
    BY <1>6, <2>1, <1>1, <1>2 DEF Deduped
<1>. QED
  BY <1>3, <1>4, <1>5, <1>6, Movers

LEMMA LedgerStep ==
    ASSUME TypeOK, Mutex, IdsExist, Ledger, Next
    PROVE  Ledger'
<1>0. Grown(rows', rows)
  BY RowsStay
<1>. DEFINE Open(e)  == pc[e] \in {"reprove", "remove", "settle"} => audit[InHand(e)].open >= 1
            Room(e)  == Spare(e) => removed[InHand(e)] + 1 <= Known(InHand(e))
(* No delete is in hand: the account of each target must only not shrink.  *)
<1>1. ASSUME \A e \in Doors : pc'[e] \notin {"reprove", "remove", "settle"}, RemovalsAreAudited'
      PROVE  Ledger'
  BY <1>1 DEF Ledger, Spare
(* The door that moves is the only one with a delete in hand.              *)
<1>2. ASSUME NEW d \in Doors, Moves(d), pc[d] \in InTick,
             RemovalsAreAudited', Open(d)', Room(d)'
      PROVE  Ledger'
  <2>1. \A e \in Doors \ {d} : pc'[e] \notin InTick
    BY <1>2, OthersStay, Alone
  <2>. QED
    BY <1>2, <2>1 DEF Ledger, Spare, InTick
<1>3. ASSUME NEW d \in Doors, Moves(d), UNCHANGED <<audit, removed>>,
             \/ pc'[d] \notin {"reprove", "remove", "settle"}
             \/ /\ pc[d] \in {"reprove", "remove", "settle"} /\ job'[d].row = job[d].row
                /\ Spare(d)' => Spare(d)
      PROVE  Ledger'
  <2>1. RemovalsAreAudited'
    BY <1>3 DEF Ledger, RemovalsAreAudited
  <2>2. CASE pc'[d] \notin {"reprove", "remove", "settle"}
    <3>1. ASSUME NEW e \in Doors \ {d} PROVE Open(e)' /\ Room(e)'
      <4>1. pc'[e] = pc[e] /\ job'[e] = job[e]
        BY <1>3, OthersStay
      <4>2. CASE pc[e] \in {"reprove", "remove", "settle"}
        <5>1. InHand(e)' = InHand(e)
          BY <1>0, <4>1, <4>2, InHandStays DEF HasRow
        <5>. QED
          BY <1>3, <4>1, <5>1 DEF Ledger, Spare, Known
      <4>3. CASE pc[e] \notin {"reprove", "remove", "settle"}
        BY <4>1, <4>3 DEF Spare
      <4>. QED
        BY <4>2, <4>3
    <3>2. Open(d)' /\ Room(d)'
      BY <2>2 DEF Spare
    <3>. QED
      BY <2>1, <3>1, <3>2 DEF Ledger
  <2>3. CASE /\ pc[d] \in {"reprove", "remove", "settle"} /\ job'[d].row = job[d].row
             /\ Spare(d)' => Spare(d)
    <3>1. InHand(d)' = InHand(d)
      BY <1>0, <2>3, InHandStays DEF HasRow
    <3>2. Open(d)' /\ Room(d)'
      BY <1>3, <2>3, <3>1 DEF Ledger, Known
    <3>. QED
      BY <1>2, <1>3, <2>1, <2>3, <3>2 DEF InTick
  <2>. QED
    BY <1>3, <2>2, <2>3
<1>4. ASSUME NEW d \in Doors, Record(d) PROVE Ledger'
  <2>0. pc[d] = "record" /\ Moves(d) /\ pc[d] \in InTick /\ UNCHANGED <<rows, job, removed>>
    BY <1>4 DEF Record, Moves, Step, InTick
  <2>1. InHand(d) \in Target /\ InHand(d)' = InHand(d)
    BY <2>0, InHandTyped DEF HasRow, InHand
  <2>2. CASE audit' = Pivot(InHand(d))
    <3>. DEFINE t == InHand(d)
    <3>1. /\ audit[t] \in [open: Nat, deleted: Nat, errored: Nat] /\ removed[t] \in Nat
          /\ removed[t] <= Known(t)
      BY <2>1 DEF TypeOK, Ledger, RemovalsAreAudited, Known
    <3>2. /\ \A u \in Target \ {t} : audit'[u] = audit[u]
          /\ audit'[t] = [audit[t] EXCEPT !.open = @ + 1]
      BY <2>1, <2>2 DEF Pivot, TypeOK
    <3>3. audit'[t].open = audit[t].open + 1 /\ audit'[t].deleted = audit[t].deleted
          /\ audit'[t].errored = audit[t].errored
      BY <3>1, <3>2
    <3>4. audit'[t].open >= 1 /\ removed[t] + 1 <= Known(t)'
      BY <3>1, <3>3, <2>1 DEF Known
    <3>5. \A u \in Target : removed[u] <= audit'[u].open + audit'[u].deleted + audit'[u].errored
      <4>1. removed[t] <= audit'[t].open + audit'[t].deleted + audit'[t].errored
        BY <3>1, <3>3 DEF Known
      <4>. QED
        BY <3>2, <4>1 DEF Ledger, RemovalsAreAudited
    <3>. QED
      BY <2>0, <2>1, <3>4, <3>5, <1>2 DEF RemovalsAreAudited
  <2>3. CASE audit' = audit /\ pc'[d] = "evaluate"
    BY <2>0, <2>3, <1>3
  <2>. QED
    BY <1>4, <2>2, <2>3 DEF Record, Goto, TypeOK
<1>5. ASSUME NEW d \in Doors, Reprove(d) PROVE Ledger'
  <2>0. /\ pc[d] = "reprove" /\ Moves(d) /\ UNCHANGED <<audit, removed>>
        /\ d \in DOMAIN job /\ job[d] \in Job
    BY <1>5 DEF Reprove, Moves, Step, TypeOK
  <2>1. job'[d].row = job[d].row
    BY <1>5, <2>0 DEF Reprove, Keep, Job
  <2>2. Spare(d)
    BY <2>0 DEF Spare
  <2>. QED
    BY <2>0, <2>1, <2>2, <1>3
<1>6. ASSUME NEW d \in Doors, Remove(d) PROVE Ledger'
  <2>. DEFINE t == InHand(d)
  <2>0. /\ pc[d] = "remove" /\ Moves(d) /\ pc[d] \in InTick /\ UNCHANGED audit
        /\ d \in DOMAIN job /\ job[d] \in Job /\ pc'[d] = "settle"
    BY <1>6 DEF Remove, Moves, Step, InTick, TypeOK, Goto
  <2>1. t \in Target
    BY <2>0, InHandTyped DEF HasRow
  <2>2. \E r, n : Keep(d, [job[d] EXCEPT !.result = r, !.freed = @ + n])
    BY <1>6 DEF Remove
  <2>3. PICK r, n : job'[d] = [job[d] EXCEPT !.result = r, !.freed = @ + n]
    BY <2>2, Kept
  <2>4. job'[d].row = job[d].row /\ job'[d].result = r
    BY <2>0, <2>3 DEF Job
  <2>5. InHand(d)' = t
    BY <1>0, <2>0, <2>4, InHandStays DEF HasRow
  <2>6. /\ audit[t].open >= 1 /\ removed[t] + 1 <= Known(t)
        /\ RemovalsAreAudited
    BY <2>0 DEF Ledger, Spare
  <2>7. CASE UNCHANGED removed
    <3>1. Spare(d)
      BY <2>0 DEF Spare
    <3>. QED
      BY <2>0, <2>4, <2>7, <3>1, <1>3
  <2>8. CASE /\ removed' = [removed EXCEPT ![t] = @ + 1]
             /\ \E n1 : Keep(d, [job[d] EXCEPT !.result = "deleted", !.freed = @ + n1])
                        \/ Keep(d, [job[d] EXCEPT !.result = "failed", !.freed = @ + n1])
    <3>1. PICK n1 : \/ job'[d] = [job[d] EXCEPT !.result = "deleted", !.freed = @ + n1]
                    \/ job'[d] = [job[d] EXCEPT !.result = "failed", !.freed = @ + n1]
      BY <2>8, Kept
    <3>2. job'[d].result # "refused"
      BY <2>0, <3>1 DEF Job
    <3>3. ~Spare(d)'
      BY <2>0, <3>2 DEF Spare
    <3>4. /\ \A u \in Target \ {t} : removed'[u] = removed[u]
          /\ removed'[t] = removed[t] + 1
      BY <2>1, <2>8 DEF TypeOK
    <3>5. RemovalsAreAudited'
      BY <2>0, <2>1, <2>6, <3>4 DEF RemovalsAreAudited, Known
    <3>6. audit'[InHand(d)'].open >= 1
      BY <2>0, <2>5, <2>6
    <3>. QED
      BY <2>0, <3>3, <3>5, <3>6, <1>2
  <2>. QED
    BY <1>6, <2>7, <2>8 DEF Remove
<1>7. ASSUME NEW d \in Doors, Settle(d) PROVE Ledger'
  <2>. DEFINE t == InHand(d)
              r == job[d].result
  <2>0. /\ pc[d] = "settle" /\ Moves(d) /\ pc[d] \in InTick
        /\ UNCHANGED <<removed, job, rows>>
        /\ pc'[d] \in {"dismiss", "evaluate"}
    BY <1>7 DEF Settle, Moves, Step, InTick, Goto, TypeOK
  <2>1. t \in Target
    BY <2>0, InHandTyped DEF HasRow
  <2>2. CASE UNCHANGED audit
    BY <2>0, <2>2, <1>3
  <2>3. CASE audit' = Closed(t, r)
    <3>1. /\ audit[t] \in [open: Nat, deleted: Nat, errored: Nat]
          /\ removed[t] \in Nat /\ audit[t].open >= 1
      BY <2>0, <2>1 DEF TypeOK, Ledger
    <3>2. \A u \in Target \ {t} : audit'[u] = audit[u]
      BY <2>1, <2>3 DEF Closed, TypeOK
    <3>3. removed[t] <= audit'[t].open + audit'[t].deleted + audit'[t].errored
      <4>1. CASE r = "refused"
        <5>1. removed[t] + 1 <= Known(t)
          BY <2>0, <4>1 DEF Ledger, Spare
        <5>2. audit'[t] = [audit[t] EXCEPT !.open = @ - 1]
          BY <2>1, <2>3, <4>1 DEF Closed, TypeOK
        <5>3. /\ audit'[t].open = audit[t].open - 1 /\ audit'[t].deleted = audit[t].deleted
              /\ audit'[t].errored = audit[t].errored
          BY <3>1, <5>2
        <5>. QED
          BY <3>1, <5>1, <5>3 DEF Known
      <4>2. CASE r # "refused"
        <5>1. removed[t] <= Known(t)
          BY <2>1 DEF Ledger, RemovalsAreAudited, Known
        <5>2. \/ audit' = [audit EXCEPT ![t].open = @ - 1, ![t].errored = @ + 1]
              \/ audit' = [audit EXCEPT ![t].open = @ - 1, ![t].deleted = @ + 1]
          BY <2>3, <4>2 DEF Closed
        <5>. HIDE DEF t
        <5>3. audit'[t].open + audit'[t].deleted + audit'[t].errored
                = audit[t].open + audit[t].deleted + audit[t].errored
          <6>1. t \in DOMAIN audit
            BY <2>1 DEF TypeOK
          <6>2. CASE audit' = [audit EXCEPT ![t].open = @ - 1, ![t].errored = @ + 1]
            <7>1. /\ audit'[t].open = audit[t].open - 1 /\ audit'[t].deleted = audit[t].deleted
                  /\ audit'[t].errored = audit[t].errored + 1
              BY <3>1, <6>1, <6>2
            <7>. QED
              BY <3>1, <7>1
          <6>3. CASE audit' = [audit EXCEPT ![t].open = @ - 1, ![t].deleted = @ + 1]
            <7>1. /\ audit'[t].open = audit[t].open - 1 /\ audit'[t].errored = audit[t].errored
                  /\ audit'[t].deleted = audit[t].deleted + 1
              BY <3>1, <6>1, <6>3
            <7>. QED
              BY <3>1, <7>1
          <6>. QED
            BY <5>2, <6>2, <6>3
        <5>. QED
          BY <5>1, <5>3 DEF Known
      <4>. QED
        BY <4>1, <4>2
    <3>4. RemovalsAreAudited'
      BY <2>0, <3>2, <3>3 DEF Ledger, RemovalsAreAudited
    <3>5. Open(d)' /\ Room(d)'
      BY <2>0 DEF Spare
    <3>. QED
      BY <2>0, <3>4, <3>5, <1>2
  <2>. QED
    BY <1>7, <2>2, <2>3 DEF Settle
<1>8. ASSUME NEW d \in Doors, Moves(d), ~Record(d), ~Reprove(d), ~Remove(d), ~Settle(d)
      PROVE  Ledger'
  <2>1. UNCHANGED <<audit, removed>>
    BY <1>8 DEF Moves, Step, Lock, Request, Scan, Dedupe, Insert, PersistDone, Snapshot, List,
                Probe, DropGone, Evaluate, Dismiss, Unlock, Reply, Return
  <2>2. \/ \E l \in (Labels \ {"reprove", "remove", "settle"}) : Goto(d, l)
        \/ pc[d] \notin {"reprove", "remove", "settle"} /\ UNCHANGED pc
    BY <1>8 DEF Moves, Step, Lock, Request, Scan, Dedupe, Insert, PersistDone, Snapshot, List,
                Probe, DropGone, Evaluate, Dismiss, Unlock, Reply, Return, Labels, InTick
  <2>3. pc'[d] \notin {"reprove", "remove", "settle"}
    BY <2>2 DEF Goto, TypeOK
  <2>. QED
    BY <1>3, <1>8, <2>1, <2>3
<1>9. CASE Crash
  BY <1>1, <1>9 DEF Crash, Ledger, RemovalsAreAudited
<1>10. CASE Environment /\ UNCHANGED <<pc, job, holder, audit, removed>>
  <2>1. RemovalsAreAudited'
    BY <1>10 DEF Ledger, RemovalsAreAudited
  <2>2. ASSUME NEW e \in Doors PROVE Open(e)' /\ Room(e)'
    <3>1. CASE pc[e] \in {"reprove", "remove", "settle"}
      <4>1. InHand(e)' = InHand(e)
        BY <1>0, <1>10, <3>1, InHandStays DEF HasRow
      <4>. QED
        BY <1>10, <4>1 DEF Ledger, Spare, Known
    <3>2. CASE pc[e] \notin {"reprove", "remove", "settle"}
      BY <1>10, <3>2 DEF Spare
    <3>. QED
      BY <3>1, <3>2
  <2>. QED
    BY <2>1, <2>2 DEF Ledger
<1>. QED
  BY <1>4, <1>5, <1>6, <1>7, <1>8, <1>9, <1>10, Movers

-----------------------------------------------------------------------------
(* A door keeps what it has seen for as long as it is in its tick.         *)
LEMMA SightGrows ==
    ASSUME Witness, NEW e \in Doors, pc'[e] \in InTick
    PROVE  /\ seen[e].on => seen'[e].on
           /\ seen[e].stale \subseteq seen'[e].stale /\ seen[e].gone \subseteq seen'[e].gone
           /\ On(cfg') => seen'[e].on
           /\ \A t \in Target : /\ world'[t] = "stale" => t \in seen'[e].stale
                                /\ world'[t] = "absent" => t \in seen'[e].gone
<1>1. seen'[e] = Look(seen[e], world', cfg')
  BY DEF Witness
<1>2. /\ Look(seen[e], world', cfg').on = (seen[e].on \/ On(cfg'))
      /\ Look(seen[e], world', cfg').stale
           = seen[e].stale \cup {t \in Target : world'[t] = "stale"}
      /\ Look(seen[e], world', cfg').gone
           = seen[e].gone \cup {t \in Target : world'[t] = "absent"}
  BY DEF Look
<1>3. (seen[e].on \/ On(cfg')) => seen'[e].on
  BY <1>1, <1>2, Zenon
<1>4. /\ seen'[e].stale = seen[e].stale \cup {t \in Target : world'[t] = "stale"}
      /\ seen'[e].gone = seen[e].gone \cup {t \in Target : world'[t] = "absent"}
  BY <1>1, <1>2
<1>. QED
  BY <1>3, <1>4

LEMMA ProvenStep ==
    ASSUME TypeOK, IdsExist, Proven, Next
    PROVE  Proven'
<1>0. Witness /\ Grown(rows', rows)
  BY RowsStay DEF Next
<1>. DEFINE P(e) == /\ pc[e] \in InTick =>
                          /\ On(cfg) => seen[e].on
                          /\ \A t \in Target : world[t] = "stale" => t \in seen[e].stale
                    /\ pc[e] \in Reading => /\ job[e].trigger # "pressure"
                                            /\ On(job[e].snap) => seen[e].on
                    /\ pc[e] \in Deleting => On(job[e].snap) /\ ModuleOf[InHand(e)] \in Allowed
                    /\ pc[e] = "remove" => InHand(e) \in seen[e].stale \cup Families
<1>1. ASSUME NEW e \in Doors, pc'[e] \in InTick
      PROVE  /\ On(cfg') => seen'[e].on
             /\ \A t \in Target : world'[t] = "stale" => t \in seen'[e].stale
  BY <1>0, <1>1, SightGrows
<1>2. ASSUME NEW e \in Doors, pc'[e] = pc[e], job'[e] = job[e] PROVE P(e)'
  <2>1. pc[e] \in Deleting => InHand(e)' = InHand(e)
    BY <1>0, <1>2, InHandStays DEF Deleting, HasRow
  <2>2. pc[e] \in InTick => /\ seen[e].on => seen'[e].on
                            /\ seen[e].stale \subseteq seen'[e].stale
    BY <1>0, <1>2, SightGrows
  <2>3. Reading \subseteq InTick /\ Deleting \subseteq InTick /\ "remove" \in Deleting
    BY DEF Reading, Deleting, InTick
  <2>. QED
    BY <1>1, <1>2, <2>1, <2>2, <2>3 DEF Proven
(* A step between two reading states that keeps the trigger and the switch. *)
<1>3. ASSUME NEW d \in Doors, pc[d] \in Reading, job'[d].trigger = job[d].trigger,
             job'[d].snap = job[d].snap, pc'[d] \notin Deleting
      PROVE  P(d)'
  <2>1. pc'[d] \in InTick => (seen[d].on => seen'[d].on)
    BY <1>0, SightGrows
  <2>2. Reading \subseteq InTick /\ "remove" \in Deleting
    BY DEF Reading, Deleting, InTick
  <2>. QED
    BY <1>1, <1>3, <2>1, <2>2 DEF Proven
<1>4. ASSUME NEW d \in Doors, pc'[d] \notin Reading PROVE P(d)'
  BY <1>1, <1>4 DEF Reading, Deleting, InTick
<1>5. ASSUME NEW d \in Doors, Snapshot(d) PROVE P(d)'
  <2>0. pc[d] = "snapshot" /\ d \in DOMAIN pc /\ job[d] \in Job
        /\ job'[d] = [job[d] EXCEPT !.snap = cfg] /\ UNCHANGED cfg
    BY <1>5, Kept DEF Snapshot, TypeOK
  <2>1. CASE MayClean(d)
    <3>1. pc'[d] = "list"
      BY <1>5, <2>0, <2>1 DEF Snapshot, Goto
    <3>2. job'[d].trigger # "pressure" /\ job'[d].snap = cfg
      BY <2>0, <2>1 DEF MayClean, Job
    <3>. QED
      BY <1>1, <2>0, <3>1, <3>2 DEF Deleting, InTick
  <2>2. CASE ~MayClean(d)
    <3>1. pc'[d] = "unlock"
      BY <1>5, <2>0, <2>2 DEF Snapshot, Goto
    <3>. QED
      BY <3>1, <1>4 DEF Reading
  <2>. QED
    BY <2>1, <2>2
<1>6. ASSUME NEW d \in Doors, Evaluate(d) PROVE P(d)'
  <2>0. pc[d] = "evaluate" /\ pc[d] \in Reading /\ job[d] \in Job
    BY <1>6 DEF Evaluate, Reading, InTick, TypeOK
  <2>1. CASE pc'[d] = "record"
    <3>1. PICK id, n :
             /\ id \in job[d].fresh \cup job[d].retry
             /\ GatesPass(d, rows[id].target)
             /\ Keep(d, [[job[d] EXCEPT !.fresh = @ \ {id}, !.retry = @ \ {id},
                                        !.row = id] EXCEPT !.used = n])
      BY <1>6, <2>0, <2>1 DEF Evaluate, Goto, TypeOK
    <3>2. job'[d] = [[job[d] EXCEPT !.fresh = @ \ {id}, !.retry = @ \ {id},
                                    !.row = id] EXCEPT !.used = n]
      BY <3>1, Kept
    <3>3. job'[d].row = id /\ job'[d].trigger = job[d].trigger /\ job'[d].snap = job[d].snap
      BY <2>0, <3>2 DEF Job
    <3>4. UNCHANGED rows
      BY <1>6 DEF Evaluate
    <3>5. On(job'[d].snap) /\ ModuleOf[InHand(d)'] \in Allowed
      BY <3>1, <3>3, <3>4 DEF GatesPass, InHand
    <3>6. seen[d].on => seen'[d].on
      BY <1>0, <2>1, SightGrows DEF InTick
    <3>. QED
      BY <1>1, <2>0, <2>1, <3>3, <3>5, <3>6 DEF Proven
  <2>2. CASE pc'[d] # "record"
    <3>1. job'[d].trigger = job[d].trigger /\ job'[d].snap = job[d].snap
      <4>1. \/ UNCHANGED job
            \/ \E id, n : \/ Keep(d, [job[d] EXCEPT !.fresh = @ \ {id}, !.retry = @ \ {id},
                                                    !.row = id])
                          \/ Keep(d, [[job[d] EXCEPT !.fresh = @ \ {id}, !.retry = @ \ {id},
                                                     !.row = id] EXCEPT !.used = n])
        BY <1>6 DEF Evaluate
      <4>2. \/ UNCHANGED job
            \/ \E id, n : \/ job'[d] = [job[d] EXCEPT !.fresh = @ \ {id}, !.retry = @ \ {id},
                                                      !.row = id]
                          \/ job'[d] = [[job[d] EXCEPT !.fresh = @ \ {id}, !.retry = @ \ {id},
                                                       !.row = id] EXCEPT !.used = n]
        BY <4>1, Kept
      <4>. QED
        BY <2>0, <4>2 DEF Job
    <3>2. pc'[d] \notin Deleting
      BY <1>6, <2>0, <2>2 DEF Evaluate, Goto, Deleting, TypeOK
    <3>. QED
      BY <2>0, <3>1, <3>2, <1>3
  <2>. QED
    BY <2>1, <2>2
<1>7. ASSUME NEW d \in Doors, Record(d) PROVE P(d)'
  <2>0. pc[d] = "record" /\ UNCHANGED <<job, rows>> /\ pc'[d] \in {"reprove", "evaluate"}
    BY <1>7 DEF Record, Goto, TypeOK
  <2>1. seen[d].on => seen'[d].on
    BY <1>0, <2>0, SightGrows DEF InTick
  <2>. QED
    BY <1>1, <2>0, <2>1 DEF Proven, InHand, Reading, Deleting, InTick
<1>8. ASSUME NEW d \in Doors, Reprove(d) PROVE P(d)'
  <2>0. pc[d] = "reprove" /\ UNCHANGED <<rows, world>> /\ job[d] \in Job
        /\ pc[d] \in Reading /\ pc[d] \in InTick /\ pc[d] \in Deleting
    BY <1>8 DEF Reprove, TypeOK, Reading, InTick, Deleting
  <2>1. CASE ProvenDead(InHand(d)) /\ Goto(d, "remove") /\ UNCHANGED job
    <3>1. pc'[d] = "remove" /\ pc'[d] \in InTick
      BY <2>1 DEF Goto, TypeOK, InTick
    <3>2. InHand(d)' = InHand(d) /\ InHand(d) \in Target
      BY <2>0, <2>1, InHandTyped DEF InHand, HasRow
    <3>3. InHand(d) \in seen'[d].stale \cup Families
      BY <1>1, <2>0, <2>1, <3>1, <3>2 DEF ProvenDead
    <3>4. seen[d].on => seen'[d].on
      BY <1>0, <3>1, SightGrows
    <3>. QED
      BY <1>1, <2>0, <2>1, <3>1, <3>2, <3>3, <3>4 DEF Proven
  <2>2. CASE Goto(d, "settle") /\ \E r : Keep(d, [job[d] EXCEPT !.result = r])
    <3>1. PICK r : job'[d] = [job[d] EXCEPT !.result = r]
      BY <2>2, Kept
    <3>2. job'[d].trigger = job[d].trigger /\ job'[d].snap = job[d].snap
      BY <2>0, <3>1 DEF Job
    <3>3. pc'[d] \notin Deleting
      BY <2>2 DEF Goto, TypeOK, Deleting
    <3>. QED
      BY <2>0, <3>2, <3>3, <1>3
  <2>. QED
    BY <1>8, <2>1, <2>2 DEF Reprove
<1>9. ASSUME NEW d \in Doors, Remove(d) PROVE P(d)'
  <2>0. pc[d] \in Reading /\ pc'[d] \notin Deleting /\ job[d] \in Job
    BY <1>9 DEF Remove, Reading, InTick, TypeOK, Goto, Deleting
  <2>1. PICK r, n : Keep(d, [job[d] EXCEPT !.result = r, !.freed = @ + n])
    BY <1>9 DEF Remove
  <2>2. job'[d] = [job[d] EXCEPT !.result = r, !.freed = @ + n]
    BY <2>1, Kept
  <2>3. job'[d].trigger = job[d].trigger /\ job'[d].snap = job[d].snap
    BY <2>0, <2>2 DEF Job
  <2>. QED
    BY <2>0, <2>3, <1>3
<1>10. ASSUME NEW d \in Doors, List(d) PROVE P(d)'
  <2>0. pc[d] \in Reading /\ pc'[d] \notin Deleting /\ job[d] \in Job
    BY <1>10 DEF List, Reading, InTick, TypeOK, Goto, Deleting
  <2>1. job'[d] = [job[d] EXCEPT !.probe = Retryable(d)] \/ UNCHANGED job
    BY <1>10, Kept DEF List
  <2>2. job'[d].trigger = job[d].trigger /\ job'[d].snap = job[d].snap
    BY <2>0, <2>1 DEF Job
  <2>. QED
    BY <2>0, <2>2, <1>3
<1>11. ASSUME NEW d \in Doors, Probe(d) PROVE P(d)'
  <2>0. pc[d] \in Reading /\ pc'[d] \notin Deleting /\ job[d] \in Job
    BY <1>11 DEF Probe, Reading, InTick, TypeOK, Goto, Deleting
  <2>1. \/ UNCHANGED job
        \/ \E id \in job[d].probe :
              \/ Keep(d, [[job[d] EXCEPT !.probe = @ \ {id}] EXCEPT !.retry = @ \cup {id}])
              \/ Keep(d, [[job[d] EXCEPT !.probe = @ \ {id}] EXCEPT !.row = id])
    BY <1>11 DEF Probe
  <2>2. \/ UNCHANGED job
        \/ \E id \in job[d].probe :
              \/ job'[d] = [[job[d] EXCEPT !.probe = @ \ {id}] EXCEPT !.retry = @ \cup {id}]
              \/ job'[d] = [[job[d] EXCEPT !.probe = @ \ {id}] EXCEPT !.row = id]
    BY <2>1, Kept
  <2>3. job'[d].trigger = job[d].trigger /\ job'[d].snap = job[d].snap
    BY <2>0, <2>2 DEF Job
  <2>. QED
    BY <2>0, <2>3, <1>3
<1>12. ASSUME NEW d \in Doors, DropGone(d) \/ Settle(d) \/ Dismiss(d) PROVE P(d)'
  <2>0. pc[d] \in Reading /\ pc'[d] \notin Deleting /\ UNCHANGED job
    BY <1>12 DEF DropGone, Settle, Dismiss, Reading, InTick, TypeOK, Goto, Deleting
  <2>. QED
    BY <2>0, <1>3
<1>13. ASSUME NEW d \in Doors, Moves(d), ~Snapshot(d), ~Evaluate(d), ~Record(d), ~Reprove(d),
              ~Remove(d), ~List(d), ~Probe(d), ~DropGone(d), ~Settle(d), ~Dismiss(d)
       PROVE  P(d)'
  <2>1. \/ \E l \in (Labels \ Reading) : Goto(d, l)
        \/ pc[d] \notin Reading /\ UNCHANGED pc
    BY <1>13 DEF Moves, Step, Lock, Request, Scan, Dedupe, Insert, PersistDone, Unlock, Reply,
                 Return, Labels, InTick, Reading
  <2>2. pc'[d] \notin Reading
    BY <2>1 DEF Goto, TypeOK
  <2>. QED
    BY <2>2, <1>4
<1>14. ASSUME NEW d \in Doors, Moves(d) PROVE Proven'
  <2>1. P(d)'
    BY <1>5, <1>6, <1>7, <1>8, <1>9, <1>10, <1>11, <1>12, <1>13, <1>14
  <2>2. \A e \in Doors \ {d} : P(e)'
    BY <1>2, <1>14, OthersStay
  <2>. QED
    BY <2>1, <2>2 DEF Proven
<1>15. CASE Crash
  BY <1>4, <1>15 DEF Crash, Reading, InTick, Proven
<1>16. CASE Environment /\ UNCHANGED <<pc, job, holder, audit, removed>>
  BY <1>2, <1>16 DEF Proven
<1>. QED
  BY <1>14, <1>15, <1>16, Movers

LEMMA FulfilledStep ==
    ASSUME TypeOK, IdsExist, Fulfilled, Next
    PROVE  Fulfilled'
<1>0. Witness /\ Grown(rows', rows)
  BY RowsStay DEF Next
<1>. DEFINE Q(e) == Closing(e) => InHand(e) \in seen[e].gone \cup Families
<1>1. ASSUME NEW e \in Doors, pc'[e] \in InTick
      PROVE  /\ seen[e].gone \subseteq seen'[e].gone
             /\ \A t \in Target : world'[t] = "absent" => t \in seen'[e].gone
  BY <1>0, <1>1, SightGrows
<1>2. ASSUME NEW e \in Doors, pc'[e] = pc[e], job'[e] = job[e] PROVE Q(e)'
  <2>1. Closing(e)' = Closing(e) /\ (Closing(e) => pc[e] \in HasRow /\ pc[e] \in InTick)
    BY <1>2 DEF Closing, Handled, HasRow, InTick
  <2>2. Closing(e) => InHand(e)' = InHand(e)
    BY <1>0, <1>2, <2>1, InHandStays
  <2>. QED
    BY <1>1, <1>2, <2>1, <2>2 DEF Fulfilled
<1>3. ASSUME NEW d \in Doors, pc'[d] \notin {"dropgone", "dismiss", "settle"} PROVE Q(d)'
  BY <1>3 DEF Closing
<1>4. ASSUME NEW d \in Doors, Probe(d) PROVE Q(d)'
  <2>0. pc[d] = "probe" /\ job[d] \in Job /\ UNCHANGED <<rows, world>>
    BY <1>4 DEF Probe, TypeOK
  <2>1. CASE pc'[d] = "dropgone"
    <3>1. PICK id \in job[d].probe : /\ ~LstatFinds(rows[id].target)
                                     /\ Keep(d, [[job[d] EXCEPT !.probe = @ \ {id}] EXCEPT !.row = id])
      BY <1>4, <2>0, <2>1 DEF Probe, Goto, TypeOK
    <3>2. job'[d] = [[job[d] EXCEPT !.probe = @ \ {id}] EXCEPT !.row = id]
      BY <3>1, Kept
    <3>3. InHand(d)' = rows[id].target
      BY <2>0, <3>2 DEF InHand, Job
    <3>4. rows[id].target \in Target
      <4>1. id \in DOMAIN rows
        BY <3>1 DEF IdsExist
      <4>2. rows[id] \in SuggestionRow(Target)
        BY <4>1 DEF TypeOK
      <4>. QED
        BY <4>2 DEF SuggestionRow
    <3>5. pc'[d] \in InTick
      BY <2>1 DEF InTick
    <3>. QED
      BY <1>1, <2>0, <3>1, <3>3, <3>4, <3>5 DEF LstatFinds
  <2>2. CASE pc'[d] # "dropgone"
    BY <1>3, <1>4, <2>0, <2>2 DEF Probe, Goto, TypeOK
  <2>. QED
    BY <2>1, <2>2
<1>5. ASSUME NEW d \in Doors, Reprove(d) PROVE Q(d)'
  <2>0. pc[d] = "reprove" /\ job[d] \in Job /\ UNCHANGED <<rows, world>>
    BY <1>5 DEF Reprove, TypeOK
  <2>1. CASE Goto(d, "remove")
    BY <1>3, <2>1 DEF Goto, TypeOK
  <2>2. CASE Goto(d, "settle") /\ \E r : /\ Keep(d, [job[d] EXCEPT !.result = r])
                                         /\ r = "deleted" => world[InHand(d)] = "absent"
    <3>0. PICK r : /\ Keep(d, [job[d] EXCEPT !.result = r])
                   /\ r = "deleted" => world[InHand(d)] = "absent"
      BY <2>2
    <3>1. job'[d] = [job[d] EXCEPT !.result = r]
      BY <3>0, Kept
    <3>2. job'[d].row = job[d].row /\ job'[d].result = r /\ pc'[d] = "settle" /\ pc'[d] \in InTick
      BY <2>0, <2>2, <3>1 DEF Job, Goto, TypeOK, InTick
    <3>3. InHand(d)' = InHand(d) /\ InHand(d) \in Target
      BY <2>0, <3>2, InHandTyped DEF InHand, HasRow
    <3>. QED
      BY <1>1, <2>0, <3>0, <3>2, <3>3 DEF Closing, Handled
  <2>. QED
    BY <1>5, <2>1, <2>2 DEF Reprove
<1>6. ASSUME NEW d \in Doors, Remove(d) PROVE Q(d)'
  <2>. DEFINE t == InHand(d)
  <2>0. pc[d] = "remove" /\ job[d] \in Job /\ UNCHANGED rows /\ pc'[d] = "settle" /\ pc'[d] \in InTick
    BY <1>6 DEF Remove, TypeOK, Goto, InTick
  <2>1. t \in Target /\ world[t] \in {"absent", "live", "stale"}
    BY <2>0, InHandTyped DEF HasRow, TypeOK
  <2>2. PICK r, n : /\ Keep(d, [job[d] EXCEPT !.result = r, !.freed = @ + n])
                    /\ \/ r # "deleted"
                       \/ world' = [world EXCEPT ![t] = "absent"]
                       \/ UNCHANGED world /\ ~Doomed(t) /\ EmptyWin(t)
    <3>. DEFINE K(r, n) == Keep(d, [job[d] EXCEPT !.result = r, !.freed = @ + n])
    <3>1. \/ K("deleted", Size[t]) /\ world' = [world EXCEPT ![t] = "absent"]
          \/ K("deleted", 0) /\ UNCHANGED world /\ ~Doomed(t) /\ EmptyWin(t)
          \/ K("refused", 0) \/ K("failed", 0) \/ K("failed", Size[t])
      <4>1. CASE EmptyWin(t)
        BY <1>6, <4>1 DEF Remove
      <4>2. CASE ~EmptyWin(t)
        BY <1>6, <4>2 DEF Remove
      <4>. QED
        BY <4>1, <4>2
    <3>. HIDE DEF K
    <3>2. \E r, n : /\ K(r, n)
                    /\ \/ r # "deleted"
                       \/ world' = [world EXCEPT ![t] = "absent"]
                       \/ UNCHANGED world /\ ~Doomed(t) /\ EmptyWin(t)
      BY <3>1
    <3>. QED
      BY <3>2 DEF K
  <2>3. job'[d] = [job[d] EXCEPT !.result = r, !.freed = @ + n]
    BY <2>2, Kept
  <2>4. job'[d].row = job[d].row /\ job'[d].result = r
    BY <2>0, <2>3 DEF Job
  <2>5. InHand(d)' = t
    BY <2>0, <2>4 DEF InHand
  <2>6. r = "deleted" => world'[t] = "absent" \/ t \in Families
    BY <2>1, <2>2 DEF Doomed, EmptyWin, TypeOK
  <2>. QED
    BY <1>1, <2>0, <2>1, <2>4, <2>5, <2>6 DEF Closing, Handled
<1>7. ASSUME NEW d \in Doors, Settle(d) PROVE Q(d)'
  <2>0. pc[d] = "settle" /\ UNCHANGED <<rows, job>> /\ (pc'[d] = "dismiss" => Handled(d))
        /\ pc'[d] \in {"dismiss", "evaluate"} /\ pc'[d] \in InTick
    BY <1>7 DEF Settle, Goto, TypeOK, InTick
  <2>1. Closing(d)' => Closing(d)
    BY <2>0 DEF Closing, Handled
  <2>. QED
    BY <1>1, <2>0, <2>1 DEF Fulfilled, InHand
<1>8. ASSUME NEW d \in Doors, Moves(d), ~Probe(d), ~Reprove(d), ~Remove(d), ~Settle(d)
      PROVE  pc'[d] \notin {"dropgone", "dismiss", "settle"}
  <2>1. \/ \E l \in (Labels \ {"dropgone", "dismiss", "settle"}) : Goto(d, l)
        \/ pc[d] \notin {"dropgone", "dismiss", "settle"} /\ UNCHANGED pc
    BY <1>8 DEF Moves, Step, Lock, Request, Scan, Dedupe, Insert, PersistDone, Snapshot, List, DropGone,
                Evaluate, Record, Dismiss, Unlock, Reply, Return, Labels, InTick
  <2>. QED
    BY <2>1 DEF Goto, TypeOK
<1>9. ASSUME NEW d \in Doors, Moves(d) PROVE \A e \in Doors : Q(e)'
  <2>1. Q(d)'
    BY <1>3, <1>4, <1>5, <1>6, <1>7, <1>8, <1>9
  <2>2. \A e \in Doors \ {d} : Q(e)'
    BY <1>2, <1>9, OthersStay
  <2>. QED
    BY <2>1, <2>2
<1>10. CASE Crash
  BY <1>1, <1>3, <1>10 DEF Crash, Fulfilled, InTick
<1>11. CASE Environment /\ UNCHANGED <<pc, job, holder, audit, removed>>
  BY <1>1, <1>2, <1>11 DEF Fulfilled
<1>12. CASE \E d \in Doors : Moves(d)
  BY <1>1, <1>9, <1>12 DEF Fulfilled
<1>. QED
  BY <1>10, <1>11, <1>12, Movers

-----------------------------------------------------------------------------
LEMMA InitHolds == Init => CleanInv
<1>. SUFFICES ASSUME Init PROVE CleanInv
  OBVIOUS
<1>1. TypeOK
  <2>1. rows \in Seq(SuggestionRow(Target))
    BY DEF Init
  <2>2. cfg \in Switch /\ acking \in BOOLEAN
    BY AutoCleanAssumption DEF Init
  <2>3. job \in [Doors -> Job]
    BY BlankJob DEF Init
  <2>4. seen \in [Doors -> Sight]
    BY DEF Init, Nothing, Sight
  <2>5. audit \in [Target -> [open: Nat, deleted: Nat, errored: Nat]]
    BY DEF Init
  <2>6. pc \in [Doors -> Labels]
    BY DEF Init, Labels
  <2>7. world \in [Target -> {"absent", "live", "stale"}] /\ removed \in [Target -> Nat]
    BY DEF Init
  <2>8. /\ holder \in Doors \cup {NoDoor} /\ lastTickNew \in Nat
        /\ events \in Nat /\ faults \in Nat /\ crashes \in Nat
    BY DEF Init
  <2>. QED
    BY <2>1, <2>2, <2>3, <2>4, <2>5, <2>6, <2>7, <2>8 DEF TypeOK
<1>2. \A d \in Doors : pc[d] = "idle" /\ job[d] = Blank
  BY DEF Init
<1>3. Mutex /\ Proven
  <2>1. "idle" \notin InTick \cup Reading \cup Deleting \cup {"remove"}
    BY DEF InTick, Reading, Deleting
  <2>2. Mutex
    BY <1>2, <2>1 DEF Mutex
  <2>3. Proven
    BY <1>2, <2>1 DEF Proven
  <2>. QED
    BY <2>2, <2>3
<1>4. IdsExist
  <2>1. Blank.fresh = {} /\ Blank.probe = {} /\ Blank.retry = {}
    BY DEF Blank
  <2>2. \A d \in Doors : job[d].fresh \cup job[d].probe \cup job[d].retry = {}
    BY <1>2, <2>1
  <2>3. \A d \in Doors : pc[d] \notin HasRow
    BY <1>2 DEF HasRow
  <2>. QED
    BY <2>2, <2>3 DEF IdsExist
<1>5. Deduped
  BY <1>2 DEF Init, Deduped, OneOpenRow, ListOpen
<1>6. Ledger
  BY <1>2 DEF Init, Ledger, RemovalsAreAudited, Spare
<1>7. Fulfilled
  BY <1>2 DEF Fulfilled, Closing, InTick
<1>. QED
  BY <1>1, <1>3, <1>4, <1>5, <1>6, <1>7 DEF CleanInv

LEMMA StepHolds == CleanInv /\ [Next]_vars => CleanInv'
<1>1. CASE CleanInv /\ Next
  BY <1>1, TypeStep, MutexStep, IdsExistStep, DedupedStep, LedgerStep, ProvenStep,
     FulfilledStep DEF CleanInv
<1>2. CASE CleanInv /\ UNCHANGED vars
  <2>1. TypeOK'
    BY <1>2 DEF CleanInv, TypeOK, vars
  <2>2. Mutex' /\ IdsExist'
    BY <1>2 DEF CleanInv, Mutex, IdsExist, vars
  <2>3. Deduped'
    BY <1>2 DEF CleanInv, Deduped, OneOpenRow, vars
  <2>4. Ledger'
    BY <1>2 DEF CleanInv, Ledger, RemovalsAreAudited, Spare, Known, InHand, vars
  <2>5. Proven'
    BY <1>2 DEF CleanInv, Proven, InHand, vars
  <2>6. Fulfilled'
    BY <1>2 DEF CleanInv, Fulfilled, Closing, Handled, InHand, vars
  <2>. QED
    BY <2>1, <2>2, <2>3, <2>4, <2>5, <2>6 DEF CleanInv
<1>. QED
  BY <1>1, <1>2

LEMMA Invariance == Spec => []CleanInv
BY InitHolds, StepHolds, PTL DEF Spec

(* The variables keep their shape (tick.go:84-158).                        *)
THEOREM TypeCorrect == Spec => []TypeOK
<1>1. CleanInv => TypeOK
  BY DEF CleanInv
<1>. QED
  BY <1>1, Invariance, PTL

(* At most one suggestion row is open per target: the check and the insert *)
(* of persistNew stay together under tickMu (tick.go:379-409).             *)
THEOREM OneOpen == Spec => []OneOpenRow
<1>1. CleanInv => OneOpenRow
  BY DEF CleanInv, Deduped
<1>. QED
  BY <1>1, Invariance, PTL

(* Every tree the engine removed has a row in auto_clean_events that       *)
(* accounts for it, whatever failed or was killed (apply.go:206-218).      *)
THEOREM Audited == Spec => []RemovalsAreAudited
<1>1. CleanInv => RemovalsAreAudited
  BY DEF CleanInv, Ledger
<1>. QED
  BY <1>1, Invariance, PTL

(* Nothing is removed on a verdict or a consent from before the tick that  *)
(* removes it, and no pressure tick removes anything (tick.go:130-134,     *)
(* module.go:187-195, config.go:131-156).                                  *)
THEOREM ProvenAndConsented == Spec => RemovalsAreProvenAndConsented
<1>1. ASSUME CleanInv, Next, NEW t \in Target, removed'[t] # removed[t]
      PROVE  \E d \in Doors : /\ pc[d] = "remove" /\ job[d].trigger # "pressure"
                              /\ seen[d].on /\ t \in seen[d].stale
                              /\ ModuleOf[t] \in Allowed
  <2>1. PICK d \in Doors : Remove(d) /\ removed' # removed
    <3>1. ASSUME Environment PROVE UNCHANGED removed
      BY <3>1 DEF Environment, Appear, Die, Revive, Vanish, WorldMoves, UserDismiss,
                  ToggleOff, ToggleOn, ToggleAck, Crash
    <3>2. ASSUME NEW d \in Doors, Moves(d), ~Remove(d) PROVE UNCHANGED removed
      BY <3>2 DEF Moves, Step, Lock, Request, Scan, Dedupe, Insert, PersistDone, Snapshot,
                  List, Probe, DropGone, Evaluate, Record, Reprove, Settle, Dismiss, Unlock,
                  Reply, Return
    <3>. QED
      BY <1>1, <3>1, <3>2 DEF Next, Moves
  <2>2. TypeOK /\ IdsExist /\ Proven /\ pc[d] = "remove"
    BY <1>1, <2>1 DEF CleanInv, Remove
  <2>3. InHand(d) \in Target
    BY <2>2, InHandTyped DEF HasRow
  <2>4. Doomed(InHand(d)) /\ removed' = [removed EXCEPT ![InHand(d)] = @ + 1]
    BY <2>1 DEF Remove
  <2>5. t = InHand(d)
    BY <1>1, <2>2, <2>3, <2>4 DEF TypeOK
  <2>6. pc[d] \in InTick /\ pc[d] \in Reading /\ pc[d] \in Deleting
    BY <2>2 DEF InTick, Reading, Deleting
  <2>7. /\ job[d].trigger # "pressure" /\ seen[d].on
        /\ ModuleOf[InHand(d)] \in Allowed
    BY <2>2, <2>6 DEF Proven
  <2>8. InHand(d) \in seen[d].stale
    BY <2>2, <2>3, <2>4, <2>6 DEF Proven, Doomed
  <2>. QED
    BY <2>2, <2>5, <2>7, <2>8
<1>2. CleanInv /\ [Next]_vars =>
         [\A t \in Target : removed'[t] # removed[t] =>
             \E d \in Doors : /\ pc[d] = "remove" /\ job[d].trigger # "pressure"
                              /\ seen[d].on /\ t \in seen[d].stale
                              /\ ModuleOf[t] \in Allowed]_vars
  BY <1>1 DEF vars
<1>. QED
  BY <1>2, Invariance, PTL DEF Spec, RemovalsAreProvenAndConsented

(* Whichever doors, dismissals, kills and failing statements overlap, the  *)
(* row of a path is closed by a tick only when the path was gone at some   *)
(* moment of that tick (tick.go:432-440, :499-504); of a family, whose     *)
(* handle no Lstat finds, nothing is promised.                             *)
THEOREM ClosedPathIsGone ==
    Spec => [][\A d \in Doors :
                 pc[d] \in {"dropgone", "dismiss"} /\ pc'[d] # pc[d] /\ rows' # rows
                     => InHand(d) \in seen[d].gone \cup Families]_vars
<1>1. CleanInv => \A d \in Doors : pc[d] \in {"dropgone", "dismiss"} => InHand(d) \in seen[d].gone \cup Families
  BY DEF CleanInv, Fulfilled, Closing
<1>2. CleanInv /\ [Next]_vars =>
         [\A d \in Doors :
             pc[d] \in {"dropgone", "dismiss"} /\ pc'[d] # pc[d] /\ rows' # rows
                 => InHand(d) \in seen[d].gone \cup Families]_vars
  BY <1>1
<1>. QED
  BY <1>2, Invariance, PTL DEF Spec

(* Where no leak is reported as a family, a tick closes a row only if its  *)
(* target was gone at some moment of the tick (tick.go:432-434).           *)
THEOREM ClosedIsGone == Families = {} => (Spec => ClosedByTickMeansGone)
<1>. SUFFICES ASSUME Families = {} PROVE Spec => ClosedByTickMeansGone
  OBVIOUS
<1>1. CleanInv => \A d \in Doors : pc[d] \in {"dropgone", "dismiss"} => InHand(d) \in seen[d].gone
  BY DEF CleanInv, Fulfilled, Closing
<1>2. CleanInv /\ [Next]_vars =>
         [\A d \in Doors :
             pc[d] \in {"dropgone", "dismiss"} /\ pc'[d] # pc[d] /\ rows' # rows
                 => InHand(d) \in seen[d].gone]_vars
  BY <1>1
<1>. QED
  BY <1>2, Invariance, PTL DEF Spec, ClosedByTickMeansGone
=============================================================================
