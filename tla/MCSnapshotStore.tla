--------------------------- MODULE MCSnapshotStore ---------------------------
(* Small instances of SnapshotStore for TLC.                               *)
EXTENDS SnapshotStore

\* "d", "d/x", "d/y" and "e"
OneDeep == [p \in 1..NPaths |-> IF p \in {2, 3} THEN {1} ELSE {}]

CONSTANTS Usual, Longer    \* what files hold at first; the content of another length
Lengths == [c \in Content |-> IF c = Longer THEN 2 ELSE 1]

Trees == {[p \in Path |-> IF Below(p) # {} THEN Dir ELSE Usual]}

\* Nothing at the target, or a snapshot of another directory, with a file of the name of
\* this one's sub-directory; one of this directory is there for the second.
Other == [roots |-> {Elsewhere}, whole |-> TRUE,
          items |-> [p \in Path |-> IF p = 1 THEN Usual ELSE Absent]]
Saves == {None, Other}
=============================================================================
