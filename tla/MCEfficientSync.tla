--------------------------- MODULE MCEfficientSync ---------------------------
(* Small instances of EfficientSync for TLC.                               *)
EXTENDS EfficientSync, TLC

\* "d", "d/x", "d/y" and "e": three files with their directory in place, or a name that
\* is a file on one side and a directory on the other
NestedAbove == [p \in 1..NPaths |-> IF 1 < p /\ p < NPaths THEN {1} ELSE {}]

Trees == {t \in [Path -> Content \cup {Absent, Dir}] : WellFormed(t) /\ \A p \in 2..NPaths : t[p] # Dir}
Listings == {ListingOf(t) : t \in Trees}

AnyPair == [src: Listings, dst: Trees]

Contents == Permutations(Content)
=============================================================================
