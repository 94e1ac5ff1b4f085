----------------------------- MODULE LeakReport -----------------------------
(***************************************************************************)
(* The sizes a leak report carries and the bytes a clean announces, over   *)
(* the trees the module Leaks finds: trees share files (hard links) and    *)
(* blocks (clones), and an entry lies inside its session.                  *)
(***************************************************************************)
EXTENDS Leaks, Sequences

CONSTANTS
    File, Device, Extents, Mapped,
    Files,          \* Files[t]: the files of t itself
    Walked,         \* the trees whose own directory the sizer can walk
    Place,          \* Place[t]: where t stands among the names of a family
    MinRun, MaxLen

ASSUME LeakReportAssumption ==
    /\ IsFiniteSet(Tree) /\ IsFiniteSet(File) /\ Files \in [Tree -> SUBSET File]
    /\ Extents \in [File -> Seq(Int \X Int)] /\ Mapped \in [File -> Nat]
    /\ Walked \subseteq Tree /\ Place \in [Tree -> Nat]
    /\ MinRun \in Nat \ {0} /\ MaxLen \in Nat

Size == INSTANCE Sizer
Name == INSTANCE FamilyNames

Below(T)   == UNION {Inside(t) : t \in T}
FilesOf(T) == UNION {Files[t] : t \in Below(T)}
Reachable(T) == UNION {Files[t] : t \in Below(T) \cap Walked}
Trees(hit) == IF hit = Fam THEN Siblings ELSE {hit}

FamilyHit == IF Cardinality(Siblings) >= MinMembers THEN {Fam} ELSE {}
AllHits   == Hits \cup FamilyHit

(* A walk that cannot read its root is an error and ends the measurement,  *)
(* the members of a family being walked by their names; further down it is *)
(* counted and passed by.                                                  *)
Reached(hit) == {t \in Trees(hit) : \A x \in Trees(hit) \ Walked : Place[t] < Place[x]}
Measured(hit) == Trees(hit) \subseteq Walked

(* A row: what this hit alone occupies, nothing if it was not measured.    *)
ItemSize(hit) == IF Measured(hit) THEN Size!UniqueAllocated(Reachable(Trees(hit))) ELSE 0

(* The headline: the extents of every hit go into one union, those of the  *)
(* members before the one that failed too.                                 *)
RowSum(hits)   == MapThenSumSet(ItemSize, hits)
Total == Size!Total(Reachable(UNION {Reached(h) : h \in AllHits}))

(* What `leaks clean` says it can free. *)
PlannedBytes == Min({RowSum(Planned), Total})

(* What removing the planned hits would free: the blocks no other file     *)
(* holds.                                                                  *)
Freed ==
    LET T    == UNION {Trees(h) : h \in Planned}
        left == FilesOf(there \ Below(T))
    IN  Size!Units(FilesOf(T)) \ Size!Units(left)

(* What the rows of the plan were measured from.                           *)
Known == Size!UnitsRead(Reachable(UNION {Trees(h) : h \in {x \in Planned : Measured(x)}}))

(* The headline is the union of the blocks that were read of, not the      *)
(* du-fiction of the founding incident: clones, hard links and nested hits *)
(* count once, holes never, volumes apart.  It is all that the trees       *)
(* occupy when no walk and no listing failed (leaks/module.go:61-116;      *)
(* sizer/extent_darwin.go:70-121, 199-305).                                *)
HeadlineIsUnion ==
    LET T == UNION {Trees(h) : h \in AllHits} IN
    /\ Total = Cardinality(Size!UnitsRead(Reachable(UNION {Reached(h) : h \in AllHits})))
    /\ (Below(T) \subseteq Walked /\ \A f \in FilesOf(T) : Size!Whole(f))
           => Total = Cardinality(Size!Units(FilesOf(T)))

(* Of the blocks the rows know of, a clean frees no more than it announces:*)
(* all that it frees, if every walk and listing of a planned hit succeeded *)
(* (cli/leaks_cmd.go:67-77).                                               *)
PlanIsUpperBound == Cardinality(Freed \cap Known) <= PlannedBytes

(* "rep.Total is the union across every hit -- the stale subset can free   *)
(* at most the smaller of the two" (cli/leaks_cmd.go:68-70), which is what *)
(* the user is asked to agree to.  Not so of a hit that could not be sized *)
(* (module.go:277-282) or a file whose extents could not be listed         *)
(* (extent_darwin.go:164-178, 296-301): it is planned all the same.        *)
AtMostTheSmaller == Cardinality(Freed) <= PlannedBytes

HandleNamesItsFamily == Name!HandleNamesItsFamily

(* What the report says is true: the bytes, the plan and the names.        *)
ReportIsTrue == HeadlineIsUnion /\ PlanIsUpperBound /\ HandleNamesItsFamily
=============================================================================
