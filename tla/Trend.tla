------------------------------- MODULE Trend -------------------------------
(***************************************************************************)
(* The pure mathematics of `noo-noo trends` and `noo-noo status`:          *)
(* internal/trend/trend.go.  A sample is [at, bytes]; rates are fractions  *)
(* [num, den] with den > 0, where the code computes in float64.            *)
(***************************************************************************)
EXTENDS Integers, SequencesExt

CONSTANTS DayLen        \* clock units in one UTC day

ASSUME TrendAssumption == DayLen \in Nat \ {0}

Day(t) == t \div DayLen

(* Samples are taken by their times, those of one time in any order: the   *)
(* newest comes on top of what all others gave.                            *)
Newest(S) == CHOOSE s \in S : \A z \in S : z.at <= s.at

(* later samples overwrite: last-of-day wins *)
Overwrite(s, byDay) ==
    [d \in DOMAIN byDay \cup {Day(s.at)} |-> IF d = Day(s.at) THEN s.bytes ELSE byDay[d]]

(* One observation per day: a function from days to bytes. *)
DayBucket(S) == MapThenFoldSet(Overwrite, [d \in {} |-> 0], LAMBDA s : s, Newest, S)

(* Days counted from the first. *)
DaysIn(pts) == [d \in DOMAIN pts |-> d - Min(DOMAIN pts)]

(* Sums over n days: n times that of the products, less the product of two. *)
Products(f, g) == [d \in DOMAIN f |-> f[d] * g[d]]
Spread(f, g) ==
    Cardinality(DOMAIN f) * SumFunction(Products(f, g)) - SumFunction(f) * SumFunction(g)

(* Ordinary least squares over the buckets; the first is the bug of a      *)
(* product taken with the wrong sum.                                       *)
SlopeUncentred(pts) ==
    LET x == DaysIn(pts)
    IN  Cardinality(DOMAIN pts) * SumFunction(Products(x, pts)) - SumFunction(x) * SumFunction(x)
SlopeNum(pts) == Spread(DaysIn(pts), pts)
SlopeDen(pts) == Spread(DaysIn(pts), DaysIn(pts))

LinearFit(pts) ==
    IF Cardinality(DOMAIN pts) < 2 THEN [ok |-> FALSE, num |-> 0, den |-> 1, window |-> 0]
    ELSE [ok |-> TRUE, num |-> SlopeNum(pts), den |-> SlopeDen(pts),
          window |-> Max(DOMAIN pts) - Min(DOMAIN pts)]

(* Days until free reaches zero at fit's rate, rounded down. *)
DaysUntilFull(free, fit) ==
    IF fit.num <= 0 THEN [ok |-> FALSE, days |-> 0]
    ELSE [ok |-> TRUE, days |-> IF free <= 0 THEN 0 ELSE (free * fit.den) \div fit.num]

(* Scan batches in a series of samples: neighbours within gap are one. *)
Batches(S, gap) ==
    LET Join(s, acc) ==
            [n |-> IF acc.n > 0 /\ s.at - acc.last <= gap THEN acc.n ELSE acc.n + 1, last |-> s.at]
    IN  MapThenFoldSet(Join, [n |-> 0, last |-> 0], LAMBDA s : s, Newest, S).n

DaysSeen(occ) == {Day(o.at) : o \in occ}

(* Classes of suggestions that were seen on two days or more.  An          *)
(* occurrence is [sig, target, at]; `` is the class of none.               *)
Recurrences(occ, none) ==
    LET Of(s) == {o \in occ : o.sig = s}
        Times(s) == {o.at : o \in Of(s)}
    IN  {[sig |-> s, days |-> Cardinality(DaysSeen(Of(s))), hits |-> Cardinality(Of(s)),
          first |-> Min(Times(s)), last |-> Max(Times(s)),
          targets |-> {o.target : o \in Of(s)}]
            : s \in {o.sig : o \in {p \in occ : p.sig # none /\ Cardinality(DaysSeen(Of(p.sig))) >= 2}}}
=============================================================================
