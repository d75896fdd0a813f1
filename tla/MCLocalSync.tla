----------------------------- MODULE MCLocalSync -----------------------------
(* Small instances of LocalSync for TLC.                                   *)
EXTENDS LocalSync

\* "d", "d/s", "d/s/x" and "e"
TwoDeep == [p \in 1..NPaths |-> CASE p = 2 -> {1} [] p = 3 -> {1, 2} [] OTHER -> {}]

CONSTANT Old    \* what all files hold but d/s/x, which has any content

Trees == {t \in [Path -> Content \cup {Absent, Dir}] :
             /\ WellFormed(t)
             /\ \A p \in {1, 2, 4} : t[p] \in {Absent, Dir, Old}
             /\ \A p \in {3, 4} : t[p] # Dir}
AnyTrees == [Side -> Trees]

SomeOptions == {{"deleteExtraFiles"}, {"verifyAfterSync"}, {"dryRun"}}

=============================================================================
