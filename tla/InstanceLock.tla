---------------------------- MODULE InstanceLock ----------------------------
(***************************************************************************)
(* Server.Start and Server.Stop of internal/ipc/server.go: the flock on    *)
(* <socket>.lock, the probe of the socket, bind, and the way back, at the  *)
(* grain of one system call per step.  Processes may be killed between any *)
(* two of them; the kernel then drops their locks and listeners, the files *)
(* stay.                                                                   *)
(*                                                                         *)
(* The lock path and the inode it names are kept apart: flock is taken on  *)
(* the inode a process has opened, which need not be the one the path      *)
(* names any more.  The pid stamped into the file only words the refusal   *)
(* and is left out.                                                        *)
(***************************************************************************)
EXTENDS Naturals

CONSTANTS
    Proc,       \* processes, each of which may be started again
    NoProc,
    Old,        \* processes of a version without the lock, only ever killed
    MaxStarts,  \* bound: calls of Server.Start
    MaxStops    \* bound: graceful shutdowns

ASSUME InstanceLockAssumption ==
    /\ NoProc \notin Proc /\ Old \subseteq Proc
    /\ MaxStarts \in Nat /\ MaxStops \in Nat

Inode == 1..MaxStarts       \* an open creates at most one
None  == 0

VARIABLES
    path,       \* the inode <socket>.lock names, or None
    born,       \* inodes created so far
    fd,         \* per process: the lock file it has open
    held,       \* processes whose flock was granted
    sock,       \* the process whose bind made the file at the socket path
    listening,  \* processes with an open listener
    pc,
    starts, stops,
    rival,      \* history: starting processes that were not alone throughout
    stray       \* history: a lock was granted on a file the path had left

vars == <<path, born, fd, held, sock, listening, pc, starts, stops, rival, stray>>

Labels == {"down", "flock", "dial", "unlink", "listen", "serving",
           "close", "remove", "droplock", "droppath", "dropfd"}

Goto(p, l)  == pc' = [pc EXCEPT ![p] = l]
Answers     == sock \in listening

(* Who was not alone: kept up to date by every step. *)
Company ==
    rival' = {p \in Proc : /\ pc'[p] # "down"
                           /\ \/ p \in rival /\ pc[p] # "down"
                              \/ \E q \in Proc \ {p} : pc'[q] # "down"}

(* A lock on a file that was removed, or replaced, since it was opened     *)
(* keeps out nobody who opens the path now.                                *)
Strays == stray' = (stray \/ \E p \in held' \ held : fd[p] # path)

Init ==
    /\ path = None /\ born = 0
    /\ fd = [p \in Proc |-> None] /\ held = {}
    /\ \/ sock = NoProc /\ listening = {} /\ pc = [p \in Proc |-> "down"]
       \/ \E o \in Old : /\ sock = o /\ listening = {o}
                         /\ pc = [p \in Proc |-> IF p = o THEN "serving" ELSE "down"]
    /\ starts = 0 /\ stops = 0 /\ rival = {} /\ stray = FALSE

-----------------------------------------------------------------------------
(* Start. *)

Open(p) ==
    /\ pc[p] = "down" /\ p \notin Old /\ starts < MaxStarts
    /\ starts' = starts + 1
    /\ IF path = None
       THEN path' = born + 1 /\ born' = born + 1
       ELSE UNCHANGED <<path, born>>
    /\ fd' = [fd EXCEPT ![p] = path'] /\ Goto(p, "flock")
    /\ UNCHANGED <<held, sock, listening, stops>>

(* LOCK_EX|LOCK_NB: granted unless another process holds this inode. *)
AnyFlock(p)    == TRUE                      \* mutant: the flock error is ignored
FlockFree(p)   == \A q \in held : fd[q] # fd[p]

Flock(p) ==
    /\ pc[p] = "flock" /\ FlockFree(p)
    /\ held' = held \cup {p} /\ Goto(p, "dial")
    /\ UNCHANGED <<path, born, fd, sock, listening, starts, stops>>

(* ErrAlreadyRunning: the file is closed, nothing on disk is touched. *)
FlockBusy(p) ==
    /\ pc[p] = "flock" /\ ~FlockFree(p)
    /\ fd' = [fd EXCEPT ![p] = None] /\ Goto(p, "down")
    /\ UNCHANGED <<path, born, held, sock, listening, starts, stops>>

NoDial(p)     == FALSE                      \* mutant: the socket is not probed
SomeoneAt(p)  == Answers

Dial(p) ==
    /\ pc[p] = "dial"
    /\ Goto(p, IF SomeoneAt(p) THEN "droppath" ELSE "unlink")
    /\ UNCHANGED <<path, born, fd, held, sock, listening, starts, stops>>

Unlink(p) ==
    /\ pc[p] = "unlink" /\ sock' = NoProc /\ Goto(p, "listen")
    /\ UNCHANGED <<path, born, fd, held, listening, starts, stops>>

(* net.Listen fails if somebody has bound the path meanwhile. *)
Listen(p) ==
    /\ pc[p] = "listen"
    /\ IF sock = NoProc
       THEN /\ sock' = p /\ listening' = listening \cup {p} /\ Goto(p, "serving")
       ELSE /\ Goto(p, "droppath") /\ UNCHANGED <<sock, listening>>
    /\ UNCHANGED <<path, born, fd, held, starts, stops>>

-----------------------------------------------------------------------------
(* Stop: a listener unlinks its socket file as it is closed, Stop removes  *)
(* the path once more, then releaseLock removes the lock file, whichever   *)
(* inode it names now, and closes its own.                                 *)

StopUnlink(p) ==
    /\ pc[p] = "serving" /\ p \notin Old
    /\ stops < MaxStops /\ stops' = stops + 1
    /\ sock' = NoProc /\ Goto(p, "close")
    /\ UNCHANGED <<path, born, fd, held, listening, starts>>

StopClose(p) ==
    /\ pc[p] = "close" /\ listening' = listening \ {p} /\ Goto(p, "remove")
    /\ UNCHANGED <<path, born, fd, held, sock, starts, stops>>

StopRemove(p) ==
    /\ pc[p] = "remove" /\ sock' = NoProc /\ Goto(p, "droppath")
    /\ UNCHANGED <<path, born, fd, held, listening, starts, stops>>

DropPath(p) ==
    /\ pc[p] = "droppath" /\ path' = None /\ Goto(p, "dropfd")
    /\ UNCHANGED <<born, fd, held, sock, listening, starts, stops>>

DropFd(p) ==
    /\ pc[p] = "dropfd" /\ Goto(p, "down")
    /\ held' = held \ {p} /\ fd' = [fd EXCEPT ![p] = None]
    /\ UNCHANGED <<path, born, sock, listening, starts, stops>>

(* However a process dies, the kernel closes what it had open. *)
LockSurvives(p) == held                     \* mutant: a lock that outlives its process
LockFreed(p)    == held \ {p}

Kill(p) ==
    /\ pc[p] # "down" /\ Goto(p, "down")
    /\ held' = LockFreed(p) /\ listening' = listening \ {p}
    /\ fd' = IF p \in held' THEN fd ELSE [fd EXCEPT ![p] = None]
    /\ UNCHANGED <<path, born, sock, starts, stops>>

-----------------------------------------------------------------------------
Next ==
    \E p \in Proc :
        /\ \/ Open(p) \/ Flock(p) \/ FlockBusy(p) \/ Dial(p) \/ Unlink(p) \/ Listen(p)
           \/ StopUnlink(p) \/ StopClose(p) \/ StopRemove(p)
           \/ DropPath(p) \/ DropFd(p) \/ Kill(p)
        /\ Company /\ Strays

Spec == Init /\ [][Next]_vars

-----------------------------------------------------------------------------
(* The shape of the lock, the socket and the processes; a process that is  *)
(* down holds no file, lock or listener, however it went down (kernel      *)
(* cleanup, server.go:172-175).                                            *)
TypeOK ==
    /\ path \in Inode \cup {None} /\ born \in 0..MaxStarts
    /\ fd \in [Proc -> Inode \cup {None}] /\ held \subseteq Proc
    /\ sock \in Proc \cup {NoProc} /\ listening \subseteq Proc
    /\ pc \in [Proc -> Labels]
    /\ starts \in 0..MaxStarts /\ stops \in 0..MaxStops /\ rival \subseteq Proc
    /\ stray \in BOOLEAN
    /\ \A p \in Proc : pc[p] = "down" =>
           fd[p] = None /\ p \notin held /\ p \notin listening

(* A daemon of a version without the lock keeps its socket until it dies,  *)
(* and is the only one that listens, whatever starts, stops, dies or goes  *)
(* wrong with the lock beside it (server.go:128-135).                      *)
OlderDaemonIsSafe ==
    \A o \in Old : pc[o] = "serving" => sock = o /\ listening = {o}

(* A start that finds nobody alive from its first step to its last is not  *)
(* refused: whatever files earlier processes left, "no stale-lock recovery *)
(* needed" (server.go:172-175, 128-136).                                   *)
AloneIsNotRefused ==
    [][\A p \in Proc :
          (\/ pc[p] = "flock" /\ pc'[p] = "down" /\ fd'[p] = None /\ ~FlockFree(p)
           \/ pc[p] \in {"dial", "listen"} /\ pc'[p] = "droppath")
              => p \in rival]_vars

(* The lock implements its promise, which is forfeit when a lock was       *)
(* granted on a file the path had left.  The process that serves is the    *)
(* owner until its listener is closed.                                     *)
Owners == IF stray THEN {} ELSE listening
Owner  == IF Owners = {} THEN NoProc ELSE CHOOSE p \in Owners : TRUE
Law == INSTANCE SocketOwner WITH
           owner <- Owner,
           phase <- IF stray THEN "forfeit"
                    ELSE IF Owners = {} THEN "free"
                    ELSE IF pc[Owner] = "serving" THEN "serving" ELSE "stopping",
           reach <- IF Answers /\ ~stray THEN sock ELSE NoProc
SingleInstance == Law!Spec

-----------------------------------------------------------------------------
(* What the documentation says and the code does not do (README,           *)
(* section 5).                                                             *)

(* "Single-instance law: exactly one noo-nood may own a socket path"       *)
(* (server.go:84): at most one process listens, and the one that serves is *)
(* the one the socket path leads to.                                       *)
OneOwner ==
    /\ \A p, q \in listening : p = q
    /\ \A p \in Proc : pc[p] = "serving" => sock = p
=============================================================================
