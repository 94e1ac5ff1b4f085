------------------------- MODULE InstanceLockProofs -------------------------
(***************************************************************************)
(* InstanceLock for any number of processes, starts and stops.  The        *)
(* single-instance law holds until a lock is granted on a file the lock    *)
(* path had left (stray), and nothing else can break it; what does not     *)
(* depend on the lock file (an older daemon, a start alone) always holds.  *)
(***************************************************************************)
EXTENDS InstanceLock, TLAPS

(* Where a process has its lock and has not yet given up the lock file. *)
Inside == {"dial", "unlink", "listen", "serving", "close", "remove", "droppath"}

(* Who holds a lock, and on which file; no two hold the same.  Until a     *)
(* stray lock is granted, who is inside holds the file the path names.     *)
Locks ==
    /\ born <= starts
    /\ \A p \in Proc : p \in held <=> p \notin Old /\ pc[p] \in Inside \cup {"dropfd"}
    /\ \A p, q \in held : fd[p] = fd[q] => p = q
    /\ \A p \in Proc : pc[p] = "flock" => fd[p] # None
    /\ \A o \in Old : pc[o] \in {"down", "serving"} /\ fd[o] = None

Named == ~stray => \A p \in Proc \ Old : pc[p] \in Inside => fd[p] = path /\ path # None

(* The listeners, and the older version, beside which nobody goes on. *)
Sockets ==
    /\ \A p \in Proc : p \in listening <=> pc[p] \in {"serving", "close"}
    /\ \A p \in Proc : pc[p] = "listen" => sock = NoProc \/ p \in rival
    /\ \A o \in Old : pc[o] = "serving" =>
          /\ sock = o
          /\ \A p \in Proc \ Old :
             pc[p] \notin {"unlink", "listen", "serving", "close", "remove"}
    /\ \A o, u \in Old : pc[o] = "serving" /\ pc[u] = "serving" => o = u

(* Until a stray lock is granted, the socket path is the server's. *)
Path ==
    ~stray =>
       /\ \A p \in Proc : pc[p] = "serving" => sock = p
       /\ \A p \in Proc : pc[p] \in {"listen", "close"} => sock = NoProc

(* Who has company is marked. *)
Rivals ==
    \A p, q \in Proc : p # q /\ pc[p] # "down" /\ pc[q] # "down" => p \in rival

LockInv == TypeOK /\ Locks /\ Named /\ Sockets /\ Path /\ Rivals

-----------------------------------------------------------------------------
LEMMA Exclusive ==
    ASSUME Locks, Named, ~stray
    PROVE  \A p, q \in Proc \ Old : pc[p] \in Inside /\ pc[q] \in Inside => p = q
BY DEF Locks, Named

LEMMA OldPlaces ==
    ASSUME Locks PROVE \A o \in Old : pc[o] \in {"down", "serving"}
BY DEF Locks

LEMMA InitHolds == Init => LockInv
<1>1. ASSUME Init PROVE TypeOK
  <2>1. path = 0 /\ born = 0 /\ starts = 0 /\ stops = 0 /\ rival = {}
    BY <1>1 DEF Init, None
  <2>2. stray \in BOOLEAN
    BY <1>1 DEF Init
  <2>3. /\ fd \in [Proc -> Inode \cup {None}] /\ held \subseteq Proc
        /\ sock \in Proc \cup {NoProc} /\ listening \subseteq Proc
        /\ pc \in [Proc -> Labels]
        /\ \A p \in Proc : pc[p] = "down" =>
              fd[p] = None /\ p \notin held /\ p \notin listening
    BY <1>1, InstanceLockAssumption DEF Init, Labels, None
  <2>. QED
    BY <2>1, <2>2, <2>3, InstanceLockAssumption DEF TypeOK, None
<1>2. ASSUME Init PROVE Locks
  BY <1>2, InstanceLockAssumption DEF Init, Locks, Inside, None
<1>3. ASSUME Init PROVE Sockets /\ Path
  BY <1>3, InstanceLockAssumption DEF Init, Sockets, Path
<1>4. ASSUME Init PROVE Named
  BY <1>4, InstanceLockAssumption DEF Init, Named, Inside
<1>5. ASSUME Init PROVE Rivals
  BY <1>5 DEF Init, Rivals
<1>. QED
  BY <1>1, <1>2, <1>3, <1>4, <1>5 DEF LockInv

-----------------------------------------------------------------------------
(* A step of one process keeps the types, the locks and the sockets.       *)

Step(p) ==
    \/ Open(p) \/ Flock(p) \/ FlockBusy(p) \/ Dial(p) \/ Unlink(p) \/ Listen(p)
    \/ StopUnlink(p) \/ StopClose(p) \/ StopRemove(p)
    \/ DropPath(p) \/ DropFd(p) \/ Kill(p)

LEMMA StepTypes ==
    ASSUME LockInv, NEW p \in Proc, Step(p), Company, Strays PROVE TypeOK'
<1>. USE InstanceLockAssumption DEF LockInv, TypeOK, Locks, Sockets, Labels, Inode, None, Goto
<1>0. rival' \subseteq Proc /\ stray' \in BOOLEAN
  BY DEF Company, Strays
<1>1. CASE Open(p)
  BY <1>0, <1>1 DEF Open
<1>2. CASE Flock(p)
  BY <1>0, <1>2 DEF Flock
<1>3. CASE FlockBusy(p)
  BY <1>0, <1>3 DEF FlockBusy, Inside
<1>4. CASE Dial(p)
  BY <1>0, <1>4 DEF Dial
<1>5. CASE Unlink(p)
  BY <1>0, <1>5 DEF Unlink
<1>6. CASE Listen(p)
  BY <1>0, <1>6 DEF Listen
<1>7. CASE StopUnlink(p)
  BY <1>0, <1>7 DEF StopUnlink
<1>8. CASE StopClose(p)
  BY <1>0, <1>8 DEF StopClose
<1>9. CASE StopRemove(p)
  BY <1>0, <1>9 DEF StopRemove
<1>10. CASE DropPath(p)
  BY <1>0, <1>10 DEF DropPath
<1>11. CASE DropFd(p)
  BY <1>0, <1>11 DEF DropFd
<1>12. CASE Kill(p)
  BY <1>0, <1>12 DEF Kill, LockFreed
<1>. QED
  BY <1>1, <1>2, <1>3, <1>4, <1>5, <1>6, <1>7, <1>8, <1>9, <1>10, <1>11, <1>12 DEF Step

LEMMA StepLocks ==
    ASSUME LockInv, NEW p \in Proc, Step(p) PROVE Locks'
<1>. USE InstanceLockAssumption DEF LockInv, TypeOK, Locks, Labels, Inode, None, Goto, Inside
<1>1. CASE Open(p)
  BY <1>1 DEF Open
<1>2. CASE Flock(p)
  BY <1>2 DEF Flock, FlockFree
<1>3. CASE FlockBusy(p)
  BY <1>3 DEF FlockBusy
<1>4. CASE Dial(p)
  BY <1>4 DEF Dial
<1>5. CASE Unlink(p)
  BY <1>5 DEF Unlink
<1>6. CASE Listen(p)
  BY <1>6 DEF Listen
<1>7. CASE StopUnlink(p)
  BY <1>7 DEF StopUnlink
<1>8. CASE StopClose(p)
  BY <1>8 DEF StopClose
<1>9. CASE StopRemove(p)
  BY <1>9 DEF StopRemove
<1>10. CASE DropPath(p)
  BY <1>10 DEF DropPath
<1>11. CASE DropFd(p)
  BY <1>11 DEF DropFd
<1>12. CASE Kill(p)
  BY <1>12 DEF Kill, LockFreed
<1>. QED
  BY <1>1, <1>2, <1>3, <1>4, <1>5, <1>6, <1>7, <1>8, <1>9, <1>10, <1>11, <1>12 DEF Step

LEMMA StepNamed ==
    ASSUME LockInv, NEW p \in Proc, Step(p), Strays PROVE Named'
<1>. SUFFICES ASSUME ~stray' PROVE Named'
  BY DEF Named
<1>0. ~stray /\ \A q \in held' \ held : fd[q] = path
  BY DEF Strays
<1>. USE InstanceLockAssumption, <1>0 DEF LockInv, TypeOK, Locks, Named, Labels, Inode, None,
         Goto, Inside
<1>1. CASE Open(p)
  BY <1>1 DEF Open
<1>2. CASE Flock(p)
  <2>1. fd[p] = path /\ path # None
    <3>1. p \in held'
      BY <1>2 DEF Flock
    <3>2. p \notin held
      BY <1>2 DEF Flock
    <3>3. fd[p] # None
      BY <1>2 DEF Flock
    <3>. QED
      BY <3>1, <3>2, <3>3
  <2>. QED
    BY <1>2, <2>1 DEF Flock
<1>3. CASE FlockBusy(p)
  BY <1>3 DEF FlockBusy
<1>4. CASE Dial(p)
  BY <1>4 DEF Dial
<1>5. CASE Unlink(p)
  BY <1>5 DEF Unlink
<1>6. CASE Listen(p)
  BY <1>6 DEF Listen
<1>7. CASE StopUnlink(p)
  BY <1>7 DEF StopUnlink
<1>8. CASE StopClose(p)
  BY <1>8 DEF StopClose
<1>9. CASE StopRemove(p)
  BY <1>9 DEF StopRemove
<1>10. CASE DropPath(p)
  BY <1>10, Exclusive DEF DropPath
<1>11. CASE DropFd(p)
  BY <1>11 DEF DropFd
<1>12. CASE Kill(p)
  BY <1>12 DEF Kill, LockFreed
<1>. QED
  BY <1>1, <1>2, <1>3, <1>4, <1>5, <1>6, <1>7, <1>8, <1>9, <1>10, <1>11, <1>12 DEF Step

LEMMA StepSockets ==
    ASSUME LockInv, NEW p \in Proc, Step(p), Company PROVE Sockets'
<1>. USE InstanceLockAssumption DEF LockInv, TypeOK, Sockets, Labels, Goto
<1>0. /\ p \in Old => pc[p] \in {"down", "serving"}
      /\ \A o \in Old : pc[o] \in {"down", "serving"}
      /\ \A q \in Proc : q \in rival /\ pc[q] # "down" /\ pc'[q] # "down" => q \in rival'
      /\ \A q, r \in Proc : q # r /\ pc'[q] # "down" /\ pc'[r] # "down" => q \in rival'
  BY DEF Locks, Company
<1>1. CASE Open(p)
  BY <1>0, <1>1 DEF Open
<1>2. CASE Flock(p)
  BY <1>0, <1>2 DEF Flock
<1>3. CASE FlockBusy(p)
  BY <1>0, <1>3 DEF FlockBusy
<1>4. CASE Dial(p)
  BY <1>0, <1>4 DEF Dial, SomeoneAt, Answers
<1>5. CASE Unlink(p)
  BY <1>0, <1>5 DEF Unlink
<1>6. CASE Listen(p)
  BY <1>0, <1>6 DEF Listen
<1>7. CASE StopUnlink(p)
  BY <1>0, <1>7 DEF StopUnlink
<1>8. CASE StopClose(p)
  BY <1>0, <1>8 DEF StopClose
<1>9. CASE StopRemove(p)
  BY <1>0, <1>9 DEF StopRemove
<1>10. CASE DropPath(p)
  BY <1>0, <1>10 DEF DropPath
<1>11. CASE DropFd(p)
  BY <1>0, <1>11 DEF DropFd
<1>12. CASE Kill(p)
  BY <1>0, <1>12 DEF Kill
<1>. QED
  BY <1>1, <1>2, <1>3, <1>4, <1>5, <1>6, <1>7, <1>8, <1>9, <1>10, <1>11, <1>12 DEF Step

LEMMA StepPath ==
    ASSUME LockInv, NEW p \in Proc, Step(p), Strays PROVE Path'
<1>. SUFFICES ASSUME ~stray' PROVE Path'
  BY DEF Path
<1>. USE InstanceLockAssumption DEF LockInv, TypeOK, Sockets, Path, Labels, Goto
<1>0. /\ p \in Old => pc[p] \in {"down", "serving"}
      /\ ~stray
      /\ p \notin Old /\ pc[p] \in Inside =>
            \A q \in Proc \ Old : pc[q] \in Inside => q = p
  BY Exclusive DEF Locks, Strays
<1>1. CASE Open(p)
  BY <1>0, <1>1 DEF Open
<1>2. CASE Flock(p)
  BY <1>0, <1>2 DEF Flock
<1>3. CASE FlockBusy(p)
  BY <1>0, <1>3 DEF FlockBusy
<1>4. CASE Dial(p)
  BY <1>0, <1>4 DEF Dial
<1>5. CASE Unlink(p)
  BY <1>0, <1>5 DEF Unlink, Inside
<1>6. CASE Listen(p)
  <2>1. p \in Proc \ Old /\ sock = NoProc /\ pc[p] = "listen"
    BY <1>0, <1>6 DEF Listen
  <2>2. \A q \in Proc \ {p} : pc[q] \notin {"serving", "close", "listen"}
    BY <1>0, <2>1, OldPlaces DEF Inside
  <2>3. /\ sock' = p /\ listening' = listening \cup {p}
        /\ pc' = [pc EXCEPT ![p] = "serving"]
    BY <1>6, <2>1 DEF Listen
  <2>. QED
    BY <2>1, <2>2, <2>3
<1>7. CASE StopUnlink(p)
  BY <1>0, <1>7 DEF StopUnlink, Inside
<1>8. CASE StopClose(p)
  BY <1>0, <1>8 DEF StopClose
<1>9. CASE StopRemove(p)
  BY <1>0, <1>9 DEF StopRemove, Inside
<1>10. CASE DropPath(p)
  BY <1>0, <1>10 DEF DropPath
<1>11. CASE DropFd(p)
  BY <1>0, <1>11 DEF DropFd
<1>12. CASE Kill(p)
  BY <1>0, <1>12 DEF Kill
<1>. QED
  BY <1>1, <1>2, <1>3, <1>4, <1>5, <1>6, <1>7, <1>8, <1>9, <1>10, <1>11, <1>12 DEF Step

LEMMA NextHolds == LockInv /\ [Next]_vars => LockInv'
<1>1. ASSUME LockInv, UNCHANGED vars PROVE LockInv'
  BY <1>1 DEF vars, LockInv, TypeOK, Locks, Named, Sockets, Path, Rivals
<1>2. ASSUME LockInv, Next PROVE LockInv'
  <2>1. PICK p \in Proc : Step(p) /\ Company /\ Strays
    BY <1>2 DEF Next, Step
  <2>2. TypeOK' /\ Locks' /\ Named' /\ Sockets' /\ Path'
    BY <1>2, <2>1, StepTypes, StepLocks, StepNamed, StepSockets, StepPath
  <2>3. Rivals'
    BY <2>1 DEF Company, Rivals
  <2>. QED
    BY <2>2, <2>3 DEF LockInv
<1>. QED
  BY <1>1, <1>2

LEMMA LockInvHolds == Spec => []LockInv
BY InitHolds, NextHolds, PTL DEF Spec

-----------------------------------------------------------------------------
(* Until a stray lock is granted at most one process listens, and the one  *)
(* that serves is the one the socket path leads to.                        *)
LEMMA InvGivesOwner == LockInv /\ ~stray => OneOwner
<1>. SUFFICES ASSUME LockInv, ~stray PROVE OneOwner
  OBVIOUS
<1>1. ASSUME NEW p \in listening, NEW q \in listening PROVE p = q
  <2>1. p \in Proc /\ q \in Proc
    BY DEF LockInv, TypeOK
  <2>2. pc[p] \in {"serving", "close"} /\ pc[q] \in {"serving", "close"}
    BY <2>1 DEF LockInv, Sockets
  <2>3. CASE p \notin Old /\ q \notin Old
    BY <2>1, <2>2, <2>3, Exclusive DEF LockInv, Inside
  <2>4. CASE p \in Old
    BY <2>1, <2>2, <2>4 DEF LockInv, Sockets, Locks
  <2>5. CASE q \in Old
    BY <2>1, <2>2, <2>5 DEF LockInv, Sockets, Locks
  <2>. QED
    BY <2>3, <2>4, <2>5
<1>. QED
  BY <1>1 DEF OneOwner, LockInv, Path

(* The single-instance law, for any number of processes, can be broken     *)
(* only by a lock granted on a file the lock path had left: every          *)
(* interleaving, kill and leftover file without one keeps it.              *)
THEOREM SingleOwner == Spec => [](stray \/ OneOwner)
<1>1. LockInv => stray \/ OneOwner
  BY InvGivesOwner DEF LockInv, TypeOK
<1>. QED
  BY <1>1, LockInvHolds, PTL

(* OlderDaemonIsSafe: the probe of the socket alone keeps newer daemons    *)
(* from disturbing one that takes no lock, stray locks or not.             *)
THEOREM OlderDaemonStays == Spec => []OlderDaemonIsSafe
<1>1. LockInv => OlderDaemonIsSafe
  <2>. SUFFICES ASSUME LockInv, NEW o \in Old, pc[o] = "serving"
                PROVE  sock = o /\ listening = {o}
    BY DEF OlderDaemonIsSafe
  <2>1. o \in Proc /\ o \in listening /\ sock = o
    BY InstanceLockAssumption DEF LockInv, Sockets
  <2>2. ASSUME NEW p \in listening PROVE p = o
    <3>1. p \in Proc /\ pc[p] \in {"serving", "close"}
      BY DEF LockInv, TypeOK, Sockets
    <3>. QED
      BY <3>1 DEF LockInv, Sockets, Locks
  <2>. QED
    BY <2>1, <2>2
<1>. QED
  BY <1>1, LockInvHolds, PTL

(* A start that is alone throughout is not refused, whatever files earlier *)
(* processes left.                                                         *)
THEOREM StaleFilesDoNotRefuse == Spec => AloneIsNotRefused
<1>1. LockInv /\ [Next]_vars =>
        [\A p \in Proc :
          (\/ pc[p] = "flock" /\ pc'[p] = "down" /\ fd'[p] = None /\ ~FlockFree(p)
           \/ pc[p] \in {"dial", "listen"} /\ pc'[p] = "droppath")
              => p \in rival]_vars
  <2>. SUFFICES ASSUME LockInv, Next, NEW p \in Proc,
                       \/ pc[p] = "flock" /\ ~FlockFree(p)
                       \/ pc[p] \in {"dial", "listen"} /\ pc'[p] = "droppath"
                PROVE  p \in rival
    OBVIOUS
  <2>1. ASSUME NEW q \in Proc, q # p, pc[q] # "down" PROVE p \in rival
    BY <2>1 DEF LockInv, Rivals
  <2>2. CASE pc[p] = "flock" /\ ~FlockFree(p)
    <3>1. PICK q \in held : fd[q] = fd[p]
      BY <2>2 DEF FlockFree
    <3>2. q \in Proc /\ q # p /\ pc[q] # "down"
      BY <2>2, <3>1 DEF LockInv, TypeOK, Locks, Inside
    <3>. QED
      BY <2>1, <3>2
  <2>3. CASE pc[p] \in {"dial", "listen"} /\ pc'[p] = "droppath"
    <3>1. PICK u \in Proc : Step(u)
      BY DEF Next, Step
    <3>2. u = p
      BY <2>3, <3>1 DEF Step, Open, Flock, FlockBusy, Dial, Unlink, Listen, StopUnlink,
           StopClose, StopRemove, DropPath, DropFd, Kill, Goto, LockInv, TypeOK
    <3>3. Dial(p) \/ Listen(p)
      BY <2>3, <3>1, <3>2 DEF Step, Open, Flock, FlockBusy, Unlink, StopUnlink,
           StopClose, StopRemove, DropPath, DropFd, Kill, Goto, LockInv, TypeOK
    <3>4. CASE Dial(p)
      <4>1. sock \in listening
        BY <2>3, <3>4 DEF Dial, SomeoneAt, Answers, Goto, LockInv, TypeOK
      <4>2. sock \in Proc /\ pc[sock] \in {"serving", "close"} /\ pc[p] = "dial"
        BY <3>4, <4>1 DEF Dial, LockInv, TypeOK, Sockets
      <4>. QED
        BY <2>1, <4>2
    <3>5. CASE Listen(p)
      BY <2>3, <3>5 DEF Listen, Goto, LockInv, TypeOK, Sockets
    <3>. QED
      BY <3>3, <3>4, <3>5
  <2>. QED
    BY <2>2, <2>3
<1>. QED
  BY <1>1, LockInvHolds, PTL DEF Spec, AloneIsNotRefused

-----------------------------------------------------------------------------
(* The lock implements its promise.  The promise sees one of four states:  *)
(* nobody listens, the listener serves, the listener is being closed, or   *)
(* the lock is forfeit.                                                    *)

Phase == IF stray THEN "forfeit" ELSE IF Owners = {} THEN "free"
         ELSE IF pc[Owner] = "serving" THEN "serving" ELSE "stopping"
Reach == IF Answers /\ ~stray THEN sock ELSE NoProc

Seen ==
    /\ stray => Owner = NoProc /\ Phase = "forfeit" /\ Reach = NoProc
    /\ ~stray /\ listening = {} => Owner = NoProc /\ Phase = "free" /\ Reach = NoProc
    /\ ~stray => \A p \in listening :
          /\ Owner = p /\ pc[p] \in {"serving", "close"} /\ listening = {p}
          /\ pc[p] = "serving" => Phase = "serving" /\ Reach = p
          /\ pc[p] = "close" => Phase = "stopping" /\ Reach = NoProc

LEMMA InvGivesSeen == LockInv => Seen
<1>. SUFFICES ASSUME LockInv PROVE Seen
  OBVIOUS
<1>1. CASE stray
  BY <1>1 DEF Seen, Owner, Owners, Phase, Reach
<1>2. CASE ~stray /\ listening = {}
  BY <1>2 DEF Seen, Owner, Owners, Phase, Reach, Answers
<1>3. ASSUME ~stray, NEW p \in listening
      PROVE  /\ Owner = p /\ pc[p] \in {"serving", "close"} /\ listening = {p}
             /\ pc[p] = "serving" => Phase = "serving" /\ Reach = p
             /\ pc[p] = "close" => Phase = "stopping" /\ Reach = NoProc
  <2>1. listening = {p}
    BY <1>3, InvGivesOwner DEF OneOwner
  <2>2. Owner = p /\ Owners # {}
    BY <1>3, <2>1 DEF Owner, Owners
  <2>3. p \in Proc /\ pc[p] \in {"serving", "close"}
    BY DEF LockInv, TypeOK, Sockets
  <2>4. pc[p] = "serving" => sock = p
    BY <1>3, <2>3 DEF LockInv, Path
  <2>5. pc[p] = "close" => sock = NoProc /\ NoProc \notin listening
    BY <1>3, <2>3, InstanceLockAssumption DEF LockInv, Path, TypeOK
  <2>. QED
    BY <1>3, <2>1, <2>2, <2>3, <2>4, <2>5 DEF Phase, Reach, Answers
<1>. QED
  BY <1>1, <1>2, <1>3 DEF Seen

LEMMA InvGivesSeenNext == LockInv' => Seen'
BY InvGivesSeen, PTL

(* A step that leaves the listener and its phase alone is not seen; the    *)
(* others are those of the promise.                                        *)
LEMMA UnseenStep ==
    ASSUME Seen, Seen', ~stray, ~stray', listening' = listening,
           \A q \in listening : pc'[q] = pc[q]
    PROVE  Owner' = Owner /\ Phase' = Phase /\ Reach' = Reach
<1>1. CASE listening = {}
  BY <1>1 DEF Seen
<1>2. CASE listening # {}
  <2>1. PICK q \in listening : TRUE
    BY <1>2
  <2>. QED
    BY <2>1 DEF Seen
<1>. QED
  BY <1>1, <1>2

Promised(p) == Law!Bind(p) \/ Law!Withdraw(p) \/ Law!Leave(p)
Unseen      == UNCHANGED <<Owner, Phase, Reach>>

LEMMA StepPromised ==
    ASSUME LockInv, LockInv', NEW p \in Proc, Step(p), ~stray, ~stray'
    PROVE  Promised(p) \/ Unseen
<1>0. Seen /\ Seen'
  BY InvGivesSeen, InvGivesSeenNext
<1>. USE DEF LockInv, TypeOK, Goto
<1>1. CASE Listen(p) /\ sock = NoProc
  <2>1. listening' = listening \cup {p} /\ pc'[p] = "serving" /\ pc[p] = "listen"
    BY <1>1 DEF Listen
  <2>2. listening = {} /\ listening' = {p}
    <3>1. listening' = {p}
      BY <1>0, <2>1 DEF Seen
    <3>2. p \notin listening
      BY <2>1 DEF Sockets
    <3>. QED
      BY <2>1, <3>1, <3>2
  <2>3. Law!Bind(p)
    BY <1>0, <2>1, <2>2 DEF Seen, Law!Bind, Phase, Reach
  <2>. QED
    BY <2>3 DEF Promised
<1>2. CASE StopUnlink(p)
  <2>1. p \in listening /\ listening' = listening /\ pc[p] = "serving" /\ pc'[p] = "close"
    BY <1>2 DEF StopUnlink, Sockets
  <2>2. Law!Withdraw(p)
    BY <1>0, <2>1 DEF Seen, Law!Withdraw, Phase, Reach
  <2>. QED
    BY <2>2 DEF Promised
<1>3. CASE (StopClose(p) \/ Kill(p)) /\ p \in listening
  <2>1. listening' = {}
    BY <1>0, <1>3 DEF Seen, StopClose, Kill
  <2>2. Law!Leave(p)
    BY <1>0, <1>3, <2>1 DEF Seen, Law!Leave, Phase, Reach
  <2>. QED
    BY <2>2 DEF Promised
<1>4. CASE /\ ~(Listen(p) /\ sock = NoProc) /\ ~StopUnlink(p)
           /\ ~((StopClose(p) \/ Kill(p)) /\ p \in listening)
  <2>1. listening' = listening
    <3>1. CASE StopClose(p) \/ Kill(p)
      BY <1>4, <3>1 DEF StopClose, Kill
    <3>. QED
      BY <1>4, <3>1 DEF Step, Open, Flock, FlockBusy, Dial, Unlink, Listen, StopUnlink,
           StopRemove, DropPath, DropFd
  <2>2. p \notin listening
    BY <1>4 DEF Step, Open, Flock, FlockBusy, Dial, Unlink, Listen, StopUnlink,
         StopClose, StopRemove, DropPath, DropFd, Kill, Sockets
  <2>3. \A q \in Proc \ {p} : pc'[q] = pc[q]
    BY DEF Step, Open, Flock, FlockBusy, Dial, Unlink, Listen, StopUnlink,
         StopClose, StopRemove, DropPath, DropFd, Kill
  <2>4. Owner' = Owner /\ Phase' = Phase /\ Reach' = Reach
    BY <1>0, <2>1, <2>2, <2>3, UnseenStep
  <2>. QED
    BY <2>4 DEF Unseen
<1>. QED
  BY <1>1, <1>2, <1>3, <1>4

(* The lock implements the single-instance law, for any number of          *)
(* processes: one owner at a time, and clients reach it or nobody, until   *)
(* a lock that keeps nobody out forfeits it.                               *)
THEOREM LockIsTheLaw == Spec => SingleInstance
<1>1. Init => Law!Init
  <2>. SUFFICES ASSUME Init PROVE Law!Init
    OBVIOUS
  <2>1. LockInv
    BY InitHolds
  <2>2. Seen
    BY <2>1, InvGivesSeen
  <2>3. ~stray /\ (listening = {} \/ \E o \in Proc : o \in listening /\ pc[o] = "serving")
    BY InstanceLockAssumption DEF Init
  <2>. QED
    BY <2>2, <2>3 DEF Seen, Law!Init, Phase, Reach
<1>2. LockInv /\ LockInv' /\ [Next]_vars => [Law!Next]_(Law!vars)
  <2>1. ASSUME LockInv, LockInv', Next PROVE [Law!Next]_(Law!vars)
    <3>1. PICK p \in Proc : Step(p) /\ Strays
      BY <2>1 DEF Next, Step
    <3>2. Seen /\ Seen'
      BY <2>1, InvGivesSeen, InvGivesSeenNext
    <3>3. CASE stray
      <4>1. stray'
        BY <3>1, <3>3 DEF Strays
      <4>. QED
        BY <3>2, <3>3, <4>1 DEF Seen, Law!vars, Phase, Reach
    <3>4. CASE ~stray /\ stray'
      <4>1. Law!Forfeit
        BY <3>2, <3>4 DEF Seen, Law!Forfeit, Phase, Reach
      <4>. QED
        BY <4>1 DEF Law!Next
    <3>5. CASE ~stray /\ ~stray'
      <4>1. Promised(p) \/ Unseen
        BY <2>1, <3>1, <3>5, StepPromised
      <4>. QED
        BY <4>1 DEF Promised, Unseen, Law!Next, Law!vars, Phase, Reach
    <3>. QED
      BY <3>3, <3>4, <3>5
  <2>2. ASSUME UNCHANGED vars PROVE UNCHANGED Law!vars
    BY <2>2 DEF vars, Law!vars, Owner, Owners, Answers
  <2>. QED
    BY <2>1, <2>2
<1>. QED
  BY <1>1, <1>2, LockInvHolds, PTL DEF Spec, SingleInstance, Law!Spec
=============================================================================
