--------------------------- MODULE MCNetRefinement ---------------------------
(* Small instances of NetRefinement for TLC.                               *)
EXTENDS NetRefinement, TLC

FlatAbove == [p \in 1..NPaths |-> {}]
OneClient == [s \in 1..NSessions |-> CHOOSE c \in Client : TRUE]

SoundTrees == {t \in [Path -> Content \cup {Absent, Dir}] : WellFormed(t)}
AllTrees == [local: [Client -> SoundTrees], served: SoundTrees]

Contents == Permutations(Content)
=============================================================================
