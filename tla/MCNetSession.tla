---------------------------- MODULE MCNetSession ----------------------------
(* Small instances of NetSession for TLC.                                  *)
EXTENDS NetProperties, TLC

\* Files side by side
FlatAbove == [p \in 1..NPaths |-> {}]

\* "d", "d/x" (and "d/y" of four paths), last "e": a name that is a file on one side
\* can be a directory on the other
NestedAbove == [p \in 1..NPaths |-> IF 1 < p /\ p < Max({3, NPaths}) THEN {1} ELSE {}]

\* "d", "d/x", "e", "e/x": what is copied can be a directory as well
PairedAbove == [p \in 1..NPaths |-> IF p % 2 = 0 THEN {p - 1} ELSE {}]

\* A client of its own for every session
AllClients == [s \in 1..NSessions |-> s]

OneClient == [s \in 1..NSessions |-> CHOOSE c \in Client : TRUE]

\* The trees made of whole files and directories
SoundTrees == {t \in [Path -> Content \cup {Absent, Dir}] : WellFormed(t)}
FlatTrees == [Path -> Content \cup {Absent}]

\* ... and without a directory that holds no file at all
TightTrees == {t \in SoundTrees : \A p \in Path : t[p] = Dir => \E q \in Below(p) : IsFile(t, q)}

\* Two clients and the server start from two different files and room for a third;
\* at each path at most one of the clients has made a change.
TwoFiles == {t \in FlatTrees : t[1] \in Content /\ t[2] \in Content \ {t[1]} /\ t[3] = Absent}
ChangesApart == {sc \in [local: [Client -> FlatTrees], served: TwoFiles] :
                     \A p \in Path : \E c \in Client : \A d \in Client \ {c} :
                         sc.local[d][p] = sc.served[p]}

\* Of the four paths: three files with their directory in place, or whatever there can
\* be at "d", "d/x" and one of the others.
ThreeFlat == {t \in SoundTrees : t[1] = Dir /\ \A p \in 2..4 : t[p] # Dir}
ThreeNested(missing) == {t \in SoundTrees : t[2] # Dir /\ t[3] # Dir /\ t[4] # Dir
                                         /\ t[missing] = Absent}
FlatOrNested == UNION {[local: [Client -> ts], served: ts] :
                           ts \in {ThreeFlat, ThreeNested(3), ThreeNested(4)}}

AllFlat == [local: [Client -> FlatTrees], served: FlatTrees]
AllTight == [local: [Client -> TightTrees], served: TightTrees]

Contents == Permutations(Content)
=============================================================================
