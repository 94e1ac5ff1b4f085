------------------------------ MODULE Pressure ------------------------------
(***************************************************************************)
(* The disk watcher of internal/pressure/watch.go: the window of the last  *)
(* samples, when it counts as sustained, and the cooldown after a trigger. *)
(* A sample that fails leaves everything as it is and is no step here;     *)
(* memory is sampled too and decides nothing.  Time is counted in samples. *)
(***************************************************************************)
EXTENDS Naturals, Sequences, FiniteSets

CONSTANTS
    Window,     \* samples looked at: DebounceWindow / SampleInterval, at least 3
    Cooldown    \* triggerCooldown, in samples

ASSUME PressureAssumption == Window \in Nat /\ Window >= 3 /\ Cooldown \in Nat

Samples == UNION {[1..n -> BOOLEAN] : n \in 0..Window}
Never   == Cooldown + 1     \* elapsed samples beyond the cooldown are one

(* The buffer drops its oldest sample once it is full. *)
Pushed(buf, high) == Append(IF Len(buf) >= Window THEN Tail(buf) ELSE buf, high)

(* A full buffer, four fifths of it high. *)
Sustained(buf) ==
    /\ Len(buf) = Window
    /\ 5 * Cardinality({i \in DOMAIN buf : buf[i]}) >= 4 * Len(buf)

Fires(buf, elapsed) == Sustained(buf) /\ elapsed > Cooldown

(* Samples since the last trigger. *)
Rearmed(buf, elapsed) ==      \* mutant: lastFire is set before the cooldown is looked at
    IF Sustained(buf) THEN 0 ELSE IF elapsed < Never THEN elapsed + 1 ELSE Never
Elapsed(buf, elapsed) ==
    IF Fires(buf, elapsed) THEN 0 ELSE IF elapsed < Never THEN elapsed + 1 ELSE Never
=============================================================================
