------------------------------ MODULE Orphans ------------------------------
(***************************************************************************)
(* The process table and the rule that makes a process an orphan           *)
(* (internal/procsig): a headless browser of ours, with a profile in a     *)
(* scratch directory, whose parent job is gone.  A signal makes nothing    *)
(* happen by itself here: a process may exit at any time, or never.        *)
(***************************************************************************)
EXTENDS Walls

CONSTANTS
    Pid,        \* above 1
    Self,       \* the pid of the command
    Line,       \* command lines: [words, dirs], dirs the --user-data-dir values
    CmdlineContains, UserDataDirGlobs,
    NoProc

VARIABLE proc   \* [Pid -> a process or NoProc]

Process == [UID : {"ours", "theirs"}, PPID : {"launchd", "job"}, Command : Line]

ASSUME OrphansAssumption == NoProc \notin Process /\ Self \in Pid

MatchesGlob(dir, g) == Len(dir) = Len(g) /\ \A i \in DOMAIN g : g[i] \in {"*", dir[i]}
underAny(dir, globs) == \E n \in 1..Len(dir), g \in globs : MatchesGlob(SubSeq(dir, 1, n), g)

Match(line) ==
    /\ CmdlineContains \subseteq line.words
    /\ line.dirs # <<>> /\ underAny(Head(line.dirs), UserDataDirGlobs)

IsOrphan(p) ==
    /\ proc[p] # NoProc /\ p # Self
    /\ proc[p].UID = "ours" /\ proc[p].PPID = "launchd" /\ Match(proc[p].Command)

(* What programs do to the table; a pid that is free is given out again.   *)
Spawn(p)   == p # Self /\ proc[p] = NoProc /\ \E x \in Process : proc' = [proc EXCEPT ![p] = x]
Exit(p)    == p # Self /\ proc[p] # NoProc /\ proc' = [proc EXCEPT ![p] = NoProc]
JobEnds(p) == proc[p] # NoProc /\ proc[p].PPID = "job" /\ proc' = [proc EXCEPT ![p].PPID = "launchd"]
Exec(p)    == /\ p # Self /\ proc[p] # NoProc
              /\ \E l \in Line \ {proc[p].Command} : proc' = [proc EXCEPT ![p].Command = l]
=============================================================================
