--------------------------- MODULE MCInstanceLock ---------------------------
(* Small instances of InstanceLock for TLC. *)
EXTENDS InstanceLock, TLC

CONSTANTS p1, p2, p3, old   \* daemons, and one of a version without the lock
=============================================================================
