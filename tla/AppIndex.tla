------------------------------ MODULE AppIndex ------------------------------
(***************************************************************************)
(* Which installed app owns a data directory of a given name               *)
(* (internal/modules/orphanapps/index.go).  A name is the sequence of its  *)
(* tokens, what lies between spaces, hyphens, dots and underscores.        *)
(***************************************************************************)
EXTENDS Integers, Sequences, SequencesExt

CONSTANTS
    App,
    Name,       \* Name[a]: the tokens of its bundle's name
    BundleId,   \* BundleId[a]: the tokens of its id
    Vague       \* tokens that identify nothing: generic ones and short ones

(* What add puts into the maps for an app, whose id only Spotlight tells.  *)
ids(spotted) == {BundleId[a] : a \in spotted}

tokens(spotted, listed) ==
    (UNION {ToSet(Name[a]) : a \in spotted \cup listed}
        \cup UNION {ToSet(BundleId[a]) : a \in spotted}) \ Vague

(* Only the first token that says something counts. *)
FirstToken(name) == SelectSeq(name, LAMBDA w : w \notin Vague)

Lookup(name, spotted, listed) ==
    \/ name \in ids(spotted)
    \/ \E a \in spotted \cup listed : name = Name[a]
    \/ LET said == FirstToken(name)
       IN  said # <<>> /\ Head(said) \in tokens(spotted, listed)
=============================================================================
