----------------------------- MODULE MCPatching -----------------------------
(* Small instances of Patching for TLC.                                    *)
EXTENDS Patching

\* "d", "d/s", "d/s/x" and "e"
TwoDeep == [p \in 1..NPaths |-> CASE p = 2 -> {1} [] p = 3 -> {1, 2} [] OTHER -> {}]

CONSTANT Usual    \* what all files hold but the one inmost, which has any content

Trees == {t \in [Path -> Content \cup {Absent, Dir}] :
             /\ WellFormed(t)
             /\ \A p \in {1, 2, 4} : t[p] \in {Absent, Dir, Usual}
             /\ \A p \in {3, 4} : t[p] # Dir}
AnyTrees == [src: Trees, dst: Trees]
=============================================================================
