------------------------------ MODULE MCLeaks ------------------------------
EXTENDS LeakReport

CONSTANTS c1, c2, m1, m2, m3, ss, en, ag

MCKind   == [t \in Tree |-> CASE t \in {c1, c2} -> "clone" [] t \in {m1, m2, m3} -> "member"
                              [] t = ss -> "session" [] t = en -> "entry" [] OTHER -> "aged"]
MCParent == [t \in Tree |-> IF t = en THEN ss ELSE None]
MCGate   == [k \in Kinds |-> IF k \in {"aged", "member"} THEN 2 ELSE 1]
MCScenes == {{c1}, {c1, c2}, {m1, m2}, {m1, m2, m3}, {ss, en}, {ag}}

(* Two clones hard-linked to one launcher (l), with two copies of a file;  *)
(* members on a second volume at the same offsets, one of them sparse.     *)
MCFile    == {"l", "a", "b", "m", "n", "e"}
MCDevice  == [f \in MCFile |-> IF f \in {"m", "n"} THEN 2 ELSE 1]
MCExtents == [f \in MCFile |-> CASE f = "l" -> << <<0, 2>> >>
                                 [] f = "a" -> << <<2, 4>>, <<7, 1>> >>
                                 [] f = "b" -> << <<2, 2>>, <<5, 0>>, <<8, 1>> >>
                                 [] f = "m" -> << <<-1, 3>>, <<1, 2>> >>
                                 [] f = "n" -> << <<2, 2>> >>
                                 [] OTHER   -> << <<4, 1>>, <<9, 2>> >>]
MCFiles   == [t \in Tree |-> CASE t = c1 -> {"l", "a"} [] t = c2 -> {"l", "b"}
                               [] t = m1 -> {"m"} [] t = m2 -> {"n"} [] t = m3 -> {"n"}
                               [] t = ss -> {"a"} [] OTHER -> {"e"}]

(* The entry and the aged tree have a file whose second extent cannot be   *)
(* listed; the directory of the third member cannot be walked for its      *)
(* size.                                                                   *)
MCMapped == [f \in MCFile |-> IF f = "e" THEN 1 ELSE 3]
MCWalked == Tree \ {m3}
MCPlace  == [t \in Tree |-> CASE t = m1 -> 1 [] t = m3 -> 2 [] OTHER -> 3]
=============================================================================
