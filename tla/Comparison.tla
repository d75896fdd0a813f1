------------------------------ MODULE Comparison ------------------------------
(***************************************************************************)
(* Two snapshots of SnapshotEngine compared (ComparisonEngine).  Unlike    *)
(* the network's listings they have directories in them.  Permissions are  *)
(* taken to be the usual ones, so that a file and a directory of one name  *)
(* differ in them or in size; files alike may differ in date.              *)
(***************************************************************************)
EXTENDS FileTree

\* What s has and d has not: findRemoved; findAdded, the other way round.
Missing(s, d) == {p \in Path : s[p] # Absent /\ d[p] = Absent}

InBoth(s, d) == {p \in Path : s[p] # Absent /\ d[p] # Absent}
BothFiles(s, d) == {p \in Path : IsFile(s, p) /\ IsFile(d, p)}

\* Files that differ in content or date, and names of two kinds; the dates of
\* directories are not compared.
Modified(s, d, redated) ==
    {p \in InBoth(s, d) : s[p] # d[p]} \cup (BothFiles(s, d) \cap redated)
=============================================================================
