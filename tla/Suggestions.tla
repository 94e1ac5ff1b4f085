---------------------------- MODULE Suggestions ----------------------------
(***************************************************************************)
(* The suggestions table of internal/store/suggestions.go, as operators on *)
(* the value `rows' of the table: a sequence of records whose index is the *)
(* row id.  Each operator is one SQL statement.                            *)
(*                                                                         *)
(* A row keeps its target and whether dismissed_at is NULL.  The module    *)
(* column is left out: a target path (or family handle) is only ever       *)
(* emitted by one heuristic, so (module, target) is determined by target.  *)
(***************************************************************************)
EXTENDS Integers, Sequences

SuggestionRow(Target) == [target: Target, open: BOOLEAN]

(* ListOpenSuggestions: the ids with dismissed_at IS NULL. *)
ListOpen(rows) == {id \in DOMAIN rows : rows[id].open}

(* HasOpenSuggestion. *)
HasOpen(rows, t) == \E id \in ListOpen(rows) : rows[id].target = t

(* InsertSuggestion; the new row's id is Len(rows) + 1. *)
InsertOpen(rows, t) == Append(rows, [target |-> t, open |-> TRUE])

(* DismissSuggestion: an UPDATE by id, whatever the row's state. *)
Dismissed(rows, id) ==
    IF id \in DOMAIN rows THEN [rows EXCEPT ![id] = [@ EXCEPT !.open = FALSE]]
                          ELSE rows
=============================================================================
