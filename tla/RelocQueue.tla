----------------------------- MODULE RelocQueue -----------------------------
(***************************************************************************)
(* The relocation_queue table of internal/store/reloc_queue.go, as         *)
(* operators on the value `rows' of the table: a sequence of records whose *)
(* index is the row id.  Each operator is one SQL statement, which SQLite  *)
(* runs atomically; a Go function that issues two statements is two steps  *)
(* of the module that uses this one.                                       *)
(*                                                                         *)
(* A row keeps what the properties tell apart: the target, the destination *)
(* pin captured when the user consented, the status, and whether an apply  *)
(* was ever attempted (attempts > 0, last_attempt_at_unix).  Timestamps,   *)
(* reasons and freed bytes are left out.                                   *)
(***************************************************************************)
EXTENDS Integers, Sequences

RelocPending  == {"queued", "blocked"}
RelocTerminal == {"applied", "cancelled"}
RelocStatus   == RelocPending \cup RelocTerminal

RelocRow(Targets, Pins) ==
    [target: Targets, pin: Pins, status: RelocStatus, tried: BOOLEAN]

(* SELECT ... WHERE status IN ('queued', 'blocked'): the ids. *)
ListPending(rows) == {id \in DOMAIN rows : rows[id].status \in RelocPending}

(* The dedupe SELECT of EnqueueRelocation. *)
PendingFor(rows, t) == {id \in ListPending(rows) : rows[id].target = t}

(* The INSERT of EnqueueRelocation. *)
InsertRow(rows, t, p) ==
    Append(rows, [target |-> t, pin |-> p, status |-> "queued", tried |-> FALSE])

(* MarkRelocationAttempt and ResolveRelocation are UPDATEs guarded by the  *)
(* pending statuses: on a terminal row they change nothing and return      *)
(* ErrRelocResolved.                                                       *)
AnyRow(rows, id)    == id \in DOMAIN rows            \* mutant: no guard
IsPending(rows, id) == id \in ListPending(rows)

MarkAttempt(rows, id) ==
    IF IsPending(rows, id)
    THEN [rows EXCEPT ![id] = [@ EXCEPT !.tried = TRUE]]
    ELSE rows

Resolve(rows, id, status) ==
    IF IsPending(rows, id)
    THEN [rows EXCEPT ![id] = [@ EXCEPT !.status = status]]
    ELSE rows
=============================================================================
