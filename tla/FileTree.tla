------------------------------ MODULE FileTree ------------------------------
(***************************************************************************)
(* The directory trees diffa reads and writes, and what Foundation's       *)
(* FileManager, Data(contentsOf:) and Data.write(to:) do to them, as the   *)
(* code under Sources/Diffa relies on it (external code).                  *)
(*                                                                         *)
(* A path is a number, in the order in which the code sorts relative path  *)
(* strings; Above gives the directories a path lies under.  A tree says    *)
(* for every path whether it is absent, a directory or a file with some    *)
(* content.  Torn is what a file holds between the truncation and the end  *)
(* of a write.                                                             *)
(***************************************************************************)
EXTENDS Integers

CONSTANTS NPaths,   \* how many relative paths there are
          Above,    \* path -> the directories it lies under
          Content,  \* what a file can hold (equal hash <=> equal content)
          Absent, Dir, Torn

Path == 1..NPaths
FileData == Content \cup {Torn}
Entry == FileData \cup {Absent, Dir}
Tree == [Path -> Entry]

ASSUME PathAssumption == NPaths \in Nat \ {0}

\* A directory's path is a prefix of, hence sorts before, what lies in it.
ASSUME AboveAssumption ==
    /\ Above \in [Path -> SUBSET Path]
    /\ \A p \in Path : \A q \in Above[p] : q < p /\ Above[q] \subseteq Above[p]

ASSUME EntryAssumption ==
    /\ Absent \notin FileData /\ Dir \notin FileData /\ Absent # Dir
    /\ Torn \notin Content

Below(p) == {q \in Path : p \in Above[q]}

IsFile(t, p) == t[p] \in FileData

\* A tree a file system can hold: whatever lies under a path lies in a directory.
WellFormed(t) == \A p \in Path : t[p] # Absent => \A q \in Above[p] : t[q] = Dir

\* No file of it is being written.
Whole(t) == \A p \in Path : t[p] # Torn

-----------------------------------------------------------------------------
(* createDirectory(at: parent, withIntermediateDirectories: true)          *)

CanMakeParents(t, p) == \A q \in Above[p] : ~ IsFile(t, q)

WithParents(t, p) == [q \in Path |-> IF q \in Above[p] THEN Dir ELSE t[q]]

\* The same under "try?": nothing happens when it fails.
TryWithParents(t, p) == IF CanMakeParents(t, p) THEN WithParents(t, p) ELSE t

ParentsExist(t, p) == \A q \in Above[p] : t[q] = Dir

\* The same if there is nothing at the parent's name; a file there passes for a parent.
ParentFound(t, p) == \A q \in Above[p] : Above[p] \subseteq Above[q] \cup {q} => t[q] # Absent
CanHouse(t, p) == ParentFound(t, p) \/ CanMakeParents(t, p)
Housed(t, p) == IF ParentFound(t, p) THEN t ELSE WithParents(t, p)

(* Data.write(to:) without .atomic: truncate, then fill.                   *)
Writable(t, p) == ParentsExist(t, p) /\ t[p] # Dir

(* removeItem: the item and all that lies under it.                        *)
Removed(t, p) == [q \in Path |-> IF q = p \/ p \in Above[q] THEN Absent ELSE t[q]]

\* (mutants) directories are pruned with what they hold; they are left
PrunedWhole(t, p) == [q \in Path |-> IF q \in Above[p] \/ Above[q] \cap Above[p] # {}
                                    THEN Absent ELSE t[q]]
NotPruned(t, p) == t

\* Directories over p that hold nothing once p is gone, innermost first.
Pruned(t, p) ==
    [q \in Path |-> IF q \in Above[p] /\ \A r \in Below(q) \ Above[p] : t[r] = Absent
                    THEN Absent ELSE t[q]]

(* copyItem: a file, or a directory with all that is in it.                *)
\* What is in it; no account is kept of what a directory outside the tree holds.
Items(t, from) == IF from \in Path THEN {t[q] : q \in Below(from)}
                  ELSE Content \cup {t[q] : q \in Path}

\* Paths have no names here: which of those below "to" the items take is left open.
Unpacked(t, from, to) ==
    {w \in [Below(to) -> Items(t, from) \cup {Absent}] :
        \A q \in Below(to) : w[q] # Absent => \A r \in Above[q] \cap Below(to) : w[r] = Dir}

ItemCopied(t, from, data, to) ==
    IF data = Dir
    THEN {[q \in Path |-> IF q = to THEN Dir ELSE IF q \in Below(to) THEN w[q] ELSE t[q]] :
             w \in Unpacked(t, from, to)}
    ELSE {[t EXCEPT ![to] = data]}

-----------------------------------------------------------------------------
(* What a scan lists: regular files with their hashes, no directories.     *)

Listing == [Path -> FileData \cup {Absent}]

ListingOf(t) == [p \in Path |-> IF IsFile(t, p) THEN t[p] ELSE Absent]

\* What a scan can pass over without a word: what lies in a directory that cannot be
\* read; everything, when the root cannot or the snapshot's query fails.
Unreadable == {Path} \cup {Below(p) : p \in Path}

Listed(t, missed) == [p \in Path |-> IF p \in missed THEN Absent ELSE ListingOf(t)[p]]
=============================================================================
