---------------------------- MODULE FamilyNames ----------------------------
(***************************************************************************)
(* How the members of an mktemp family are told by their names, and how a  *)
(* report names the family: a name is the sequence of the classes of its   *)
(* characters (lower, upper, digit, separator), MinRun the length of the   *)
(* shortest random suffix (6 in the code).                                 *)
(***************************************************************************)
EXTENDS Naturals, Sequences, SequencesExt, FiniteSetsExt

CONSTANTS
    MinRun,
    MaxLen      \* bound: the longest name

Char  == {"lower", "upper", "digit", "sep"}
Names == UNION {[1..n -> Char] : n \in 1..MaxLen}
NoKey == [ok |-> FALSE, prefix |-> <<>>, sep |-> <<>>]

(* The last place of name with a class in S, 0 when there is none. *)
LastOf(name, S) == Max({0} \cup {i \in DOMAIN name : name[i] \in S})
Tail_(name, i)  == {name[j] : j \in (i + 1)..Len(name)}

(* A prefix that ends in a separator gives it away, unless it is nothing   *)
(* else.                                                                   *)
Split(prefix, least) ==
    IF Len(prefix) > least /\ Last(prefix) = "sep"
    THEN [ok |-> TRUE, prefix |-> Front(prefix), sep |-> <<"sep">>]
    ELSE [ok |-> TRUE, prefix |-> prefix, sep |-> <<>>]

(* Digits first; else what follows the last separator must look random.    *)
familyKeyOf(name) ==
    LET d == LastOf(name, Char \ {"digit"})
        i == LastOf(name, {"sep"})
        random == /\ Len(name) - i >= MinRun
                  /\ Tail_(name, i) # {"lower"} /\ Tail_(name, i) # {"upper"}
    IN  IF d >= 1 /\ Len(name) - d >= MinRun THEN Split(SubSeq(name, 1, d), 1)
        ELSE IF i > 1 /\ random
        THEN [ok |-> TRUE, prefix |-> SubSeq(name, 1, i - 1), sep |-> <<"sep">>]
        ELSE NoKey

(* <prefix><sep>*, without the star. *)
handle(key) == key.prefix \o key.sep

parseFamilyHandle(stem) ==
    IF stem = <<>> \/ Split(stem, 0).prefix = <<>> THEN NoKey ELSE Split(stem, 0)

(* A family can be found again from the handle its suggestion carries      *)
(* (leaks/family.go:82-97, 157-169: "parseFamilyHandle inverts             *)
(* family.handle"), except one whose prefix is a single separator.         *)
HandleNamesItsFamily ==
    \A name \in Names :
        LET key == familyKeyOf(name) IN
        key.ok /\ key.prefix # <<"sep">> => parseFamilyHandle(handle(key)) = key
=============================================================================
