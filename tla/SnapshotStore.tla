----------------------------- MODULE SnapshotStore -----------------------------
(***************************************************************************)
(* Taking snapshots of a directory that somebody else may change           *)
(* meanwhile: the scan (SnapshotEngine, FileSystemItem), the cache of      *)
(* hashes that outlives it (HashCache), the database the items go to       *)
(* (Snapshot, SnapshotWriter) and, when asked for, the swap of a complete  *)
(* one for the old one (AtomicFileReplace).                                *)
(*                                                                         *)
(* Time counts half seconds: the cache keeps dates without the fraction    *)
(* of a second, files have them with it.                                   *)
(*                                                                         *)
(* A scan is parallel or not.  If it is, the files of a directory are      *)
(* tasks, done in any order and one between the steps of another, and what *)
(* they return is written once the directory has been gone through, its    *)
(* sub-directories included.  If not, one item follows the other.  What a  *)
(* failing insertion costs differs: a sequential scan the one item, a      *)
(* parallel one what is left of the directory, or at the root the save.    *)
(***************************************************************************)
EXTENDS FileTree

CONSTANTS Size,       \* content -> the length of the file
          Dates,      \* the dates files are given, in half seconds
          FirstTrees, \* \subseteq Tree: the directory at first
          FirstDate,  \* of all its files
          FirstSaved, \* what may be at the target at first
          Root, Elsewhere, \* this directory's name and another's
          None,
          Edited,     \* each change has to do with one of these paths
          MaxRuns, MaxEdits, MaxFaults

ASSUME SizeAssumption == Size \in [Content -> Nat]
ASSUME DatesAssumption == Dates \subseteq Nat /\ FirstDate \in Dates
ASSUME FirstAssumption == FirstTrees \subseteq [Path -> Content \cup {Absent, Dir}]
\* What is not at the root lies in a directory of its own.
ASSUME ParentAssumption ==
    \A p \in Path : Above[p] # {} => \E q \in Above[p] : Above[p] = Above[q] \cup {q}
ASSUME NameAssumption == Root # Elsewhere
ASSUME BoundsAssumption ==
    Edited \subseteq Path /\ MaxRuns \in Nat /\ MaxEdits \in Nat /\ MaxFaults \in Nat

\* A snapshot file: the directories with a metadata row, the rows of items,
\* and whether a scan into it was ever committed.
Database == [roots: SUBSET {Root, Elsewhere}, items: Tree, whole: BOOLEAN]
ASSUME NoneAssumption == None \notin Database
ASSUME SavedAssumption ==
    FirstSaved \subseteq {s \in Database : WellFormed(s.items)} \cup {None}

Attributes == [size: Nat, date: Nat]
CacheRow == [size: Nat, date: Nat, hash: FileData]
ASSUME NoRowAssumption == None \notin CacheRow /\ None \notin Attributes

VARIABLES tree, date,   \* the directory, and the modification dates of its files
          versions,     \* path -> attributes its file has had
          hidden,       \* paths whose change no look at size and date can tell
          cache,        \* path -> a row of the hash cache, or None
          files,        \* what is at the target and at the staging file
          mode,         \* "plain" or "atomic": the last createSnapshot
          phase,        \* how far it is: "idle", "scan", "commit", "swap", "open"
          parallel,     \* ScanOptions.useParallelHashing of the scan under way
          stage,        \* path -> "unlisted", "listed", "hashing", "hashed", "done"
          seen,         \* path -> its attributes when it was looked at
          results,      \* path -> the hash that has yet to be written, or Absent
          items,        \* the rows of the transaction under way
          before,       \* what was at the target when the last one was started
          touched,      \* paths changed or passed over since
          cut,          \* directories the rest of whose results were dropped since
          racing,       \* files changed since they were looked at
          last,         \* how it ended
          runs, edits, faults

directory == <<tree, date, versions, hidden>>
scan == <<parallel, stage, seen, results, racing>>
vars == <<directory, cache, files, mode, phase, scan, items, before, touched, cut, last,
          runs, edits, faults>>

Nothing == [p \in Path |-> Absent]

Parent == [p \in Path |-> {q \in Above[p] : Above[p] = Above[q] \cup {q}}]
In(D) == {p \in Path : Parent[p] = D}      \* the items of a directory; {} is the root

AttributesOf(p) == [size |-> Size[tree[p]], date |-> date[p]]

Init ==
    /\ tree \in FirstTrees /\ WellFormed(tree)
    /\ date = [p \in Path |-> FirstDate]
    /\ versions = [p \in Path |-> IF IsFile(tree, p) THEN {AttributesOf(p)} ELSE {}]
    /\ hidden = {} /\ cache = [p \in Path |-> None]
    /\ \E s \in FirstSaved : files = [target |-> s, staging |-> None] /\ before = s
    /\ mode = "plain" /\ parallel = FALSE /\ phase = "idle" /\ last = "none"
    /\ stage = [p \in Path |-> "unlisted"] /\ seen = [p \in Path |-> None] /\ results = Nothing
    /\ items = Nothing /\ touched = {} /\ racing = {} /\ cut = {}
    /\ runs = 0 /\ edits = 0 /\ faults = 0

-----------------------------------------------------------------------------
(* Whoever works in the directory.                                         *)

Changes(paths) ==
    /\ edits < MaxEdits /\ paths \cap Edited # {} /\ edits' = edits + 1
    /\ touched' = touched \cup paths
    /\ racing' = racing \cup {p \in paths : stage[p] = "hashing"}
    /\ UNCHANGED <<cache, files, mode, parallel, phase, stage, seen, results, items, before, cut,
                   last, runs, faults>>

\* What size and date cannot tell: the length is the one of an earlier version and
\* the date less than a second later, or up to one earlier, than that version's.
Resembles(new, old) == new.size = old.size /\ new.date - old.date \in -2..1

WriteFile(p, c, d) ==
    LET new == [size |-> Size[c], date |-> d]
    IN  /\ Changes({p})
        /\ Writable(tree, p)
        /\ tree' = [tree EXCEPT ![p] = c] /\ date' = [date EXCEPT ![p] = d]
        /\ versions' = [versions EXCEPT ![p] = @ \cup {new}]
        /\ hidden' = IF \E old \in versions[p] : Resembles(new, old)
                     THEN hidden \cup {p} ELSE hidden

Remove(p) ==
    /\ tree[p] # Absent
    /\ Changes({p} \cup Below(p))
    /\ tree' = Removed(tree, p) /\ UNCHANGED <<date, versions, hidden>>

MakeDirectory(p) ==
    /\ Changes({p})
    /\ tree[p] = Absent /\ ParentsExist(tree, p)
    /\ tree' = [tree EXCEPT ![p] = Dir] /\ UNCHANGED <<date, versions, hidden>>

-----------------------------------------------------------------------------
Fault == faults < MaxFaults /\ faults' = faults + 1

\* What createSnapshot kept in memory is gone.
Forget ==
    /\ parallel' = FALSE /\ stage' = [p \in Path |-> "unlisted"]
    /\ seen' = [p \in Path |-> None] /\ results' = Nothing /\ racing' = {}
    /\ items' = Nothing

\* It returns or throws.
End(how) == phase' = "idle" /\ last' = how /\ Forget

\* (mutant) the scan writes to the target itself
IntoTarget(m) == "target"

Into(m) == IF m = "atomic" THEN "staging" ELSE "target"

\* Which of a directory's items are seen: all, or none when it cannot be read.
Entered(D) ==
    LET present == {p \in In(D) : tree[p] # Absent}
        below == {p \in Path : D \subseteq Above[p]}
    IN  \/ stage' = [p \in Path |-> IF p \in present THEN "listed"
                                    ELSE IF p \in D THEN "done" ELSE stage[p]]
           /\ UNCHANGED <<touched, faults>>
        \/ stage' = [p \in Path |-> IF p \in D THEN "done" ELSE stage[p]]
           /\ touched' = touched \cup below /\ Fault

\* Snapshot.create makes the tables, then the metadata row, each committed by itself; a
\* second row of the same root is refused, and either may fail.
Opened(f, old) ==
    files' = [files EXCEPT ![f] = IF old = None
                                  THEN [roots |-> {Root}, items |-> Nothing, whole |-> FALSE]
                                  ELSE [old EXCEPT !.roots = @ \cup {Root}]]

NotOpened(m, old) ==
    \/ old # None /\ Root \in old.roots /\ UNCHANGED <<files, faults>>
    \/ Fault /\ files' = IF m = "atomic" \/ old # None THEN files
                         ELSE [files EXCEPT !["target"] =
                                  [roots |-> {}, items |-> Nothing, whole |-> FALSE]]

\* createSnapshot up to the listing of the root, after BEGIN TRANSACTION.
Start(m) ==
    LET f == Into(m)
        old == IF m = "atomic" THEN None ELSE files[f]    \* a staging file's name is new
    IN  /\ phase = "idle" /\ runs < MaxRuns
        /\ runs' = runs + 1 /\ mode' = m
        /\ before' = files["target"] /\ cut' = {}
        /\ \/ /\ NotOpened(m, old)
              /\ last' = "failed" /\ UNCHANGED <<phase, scan, items, touched>>
           \/ /\ old # None => Root \notin old.roots
              /\ Opened(f, old)
              /\ items' = IF old = None THEN Nothing ELSE old.items
              /\ phase' = "scan" /\ last' = "none" /\ parallel' \in BOOLEAN
              /\ seen' = [p \in Path |-> None] /\ results' = Nothing /\ racing' = {}
              /\ \/ /\ stage' = [p \in Path |-> IF p \in In({}) /\ tree[p] # Absent
                                                THEN "listed" ELSE "unlisted"]
                    /\ touched' = {} /\ UNCHANGED faults
                 \/ /\ stage' = [p \in Path |-> "unlisted"]
                    /\ touched' = Path /\ Fault
        /\ UNCHANGED <<directory, cache, edits>>

\* A sequential scan is done with an item before it turns to the next.
Turn == parallel \/ \A p \in Path : stage[p] \notin {"hashing", "hashed"}

\* SnapshotWriter.insertItem: paths are unique, a row that is there stays and the
\* insertion throws.
Inserted(p, e) == IF items[p] = Absent THEN [items EXCEPT ![p] = e] ELSE items

\* (mutant) a directory is gone through although its row was refused
ScanDirectoryAnyway(p) ==
    /\ phase = "scan" /\ stage[p] = "listed" /\ tree[p] = Dir /\ Turn
    /\ items' = Inserted(p, Dir) /\ Entered({p})
    /\ UNCHANGED <<directory, cache, files, mode, parallel, phase, seen, results, racing, before,
                   cut, last, runs, edits>>

\* In both scans what fails of a directory, in it or under it, ends with it.
ScanDirectory(p) ==
    /\ phase = "scan" /\ stage[p] = "listed" /\ tree[p] = Dir /\ Turn
    /\ items' = Inserted(p, Dir)
    /\ IF items[p] = Absent
       THEN Entered({p})
       ELSE stage' = [stage EXCEPT ![p] = "done"] /\ UNCHANGED <<touched, faults>>
    /\ UNCHANGED <<directory, cache, files, mode, parallel, phase, seen, results, racing, before,
                   cut, last, runs, edits>>

-----------------------------------------------------------------------------
(* FileSystemItem.init                                                     *)

Floor(d) == d - (d % 2)

\* HashCache.lookup: the dates are less than a second apart
Hit(row, a) == row # None /\ row.size = a.size /\ a.date - row.date \in -1..1

Look(p) ==
    /\ phase = "scan" /\ stage[p] = "listed" /\ IsFile(tree, p) /\ Turn
    /\ IF Hit(cache[p], AttributesOf(p))
       THEN /\ results' = [results EXCEPT ![p] = cache[p].hash]
            /\ stage' = [stage EXCEPT ![p] = "hashed"] /\ UNCHANGED seen
       ELSE /\ seen' = [seen EXCEPT ![p] = AttributesOf(p)]
            /\ stage' = [stage EXCEPT ![p] = "hashing"] /\ UNCHANGED results
    /\ UNCHANGED <<directory, cache, files, mode, parallel, phase, racing, items, before, touched,
                   cut, last, runs, edits, faults>>

\* (mutant) the row has the attributes the file has after it was hashed
RowOfNow(p, h) == [size |-> Size[tree[p]], date |-> Floor(date[p]), hash |-> h]

\* HashCache.store, with the attributes read before the content
Row(p, h) == [size |-> seen[p].size, date |-> Floor(seen[p].date), hash |-> h]

\* What is read while the file changes may be a bit of each version.
HashFile(p) ==
    /\ phase = "scan" /\ stage[p] = "hashing" /\ IsFile(tree, p)
    /\ \E h \in {tree[p]} \cup (IF p \in racing THEN {Torn} ELSE {}) :
          /\ cache' = [cache EXCEPT ![p] = Row(p, h)]
          /\ results' = [results EXCEPT ![p] = h]
    /\ stage' = [stage EXCEPT ![p] = "hashed"]
    /\ UNCHANGED <<directory, files, mode, parallel, phase, seen, racing, items, before, touched,
                   cut, last, runs, edits, faults>>

-----------------------------------------------------------------------------
(* What becomes of an item                                                 *)

Processed(p) ==
    stage' = [stage EXCEPT ![p] = "done"] /\ results' = [results EXCEPT ![p] = Absent]

\* A directory's results are taken once all its items are tasks or done, and nothing
\* under its sub-directories is under way.
Draining(D) ==
    \A q \in Path : D \subseteq Above[q] /\ stage[q] \notin {"unlisted", "done"} =>
        q \in In(D) /\ ~ (stage[q] = "listed" /\ tree[q] = Dir)

Insert(p) ==
    /\ phase = "scan" /\ stage[p] = "hashed"
    /\ parallel => Parent[p] \notin cut /\ Draining(Parent[p])
    /\ Processed(p)
    /\ items' = Inserted(p, results[p])
    /\ cut' = IF parallel /\ items[p] # Absent THEN cut \cup {Parent[p]} ELSE cut
    /\ UNCHANGED <<directory, cache, files, mode, parallel, phase, seen, racing, before, touched,
                   last, runs, edits, faults>>

\* Another error of SQLite's.
InsertFails(p) ==
    /\ phase = "scan" /\ stage[p] = "hashed" /\ parallel
    /\ Parent[p] \notin cut /\ Draining(Parent[p]) /\ Fault
    /\ Processed(p)
    /\ cut' = cut \cup {Parent[p]}
    /\ UNCHANGED <<directory, cache, files, mode, parallel, phase, seen, racing, items, before,
                   touched, last, runs, edits>>

\* The group is left: it waits for its tasks, but nobody takes what they return.
Drop(p) ==
    /\ phase = "scan" /\ stage[p] = "hashed" /\ Parent[p] \in cut
    /\ Processed(p)
    /\ UNCHANGED <<directory, cache, files, mode, parallel, phase, seen, racing, items, before,
                   touched, cut, last, runs, edits, faults>>

\* What was listed or looked at is no longer there, or no longer of its kind.
Vanished(p) ==
    /\ phase = "scan"
    /\ \/ stage[p] = "listed" /\ tree[p] = Absent /\ Turn
       \/ stage[p] = "hashing" /\ ~ IsFile(tree, p)
    /\ Processed(p)
    /\ UNCHANGED <<directory, cache, files, mode, parallel, phase, seen, racing, items, before,
                   touched, cut, last, runs, edits, faults>>

\* An item that cannot be read, hashed or looked up, or by a sequential scan inserted,
\* is left out without a word.
PassOver(p) ==
    /\ phase = "scan"
    /\ \/ stage[p] = "listed" /\ Turn
       \/ stage[p] = "hashing"
       \/ stage[p] = "hashed" /\ ~ parallel
    /\ Processed(p)
    /\ touched' = touched \cup {p} \cup Below(p) /\ Fault
    /\ UNCHANGED <<directory, cache, files, mode, parallel, phase, seen, racing, items, before, cut,
                   last, runs, edits>>

-----------------------------------------------------------------------------
\* (mutant) the tasks that still hash are not waited for
NothingListed == \A p \in Path : stage[p] # "listed"

AllProcessed == \A p \in Path : stage[p] \in {"unlisted", "done"}

\* HashCache.prune, in a transaction of the cache's own
Prune ==
    /\ phase = "scan" /\ AllProcessed /\ {} \notin cut
    /\ cache' = [p \in Path |-> IF items[p] \in {Absent, Dir} THEN None ELSE cache[p]]
    /\ phase' = "commit"
    /\ UNCHANGED <<directory, files, mode, scan, items, before, touched, cut, last,
                   runs, edits, faults>>

\* COMMIT; the staging file of an atomic save is opened once more and closed.
Commit ==
    /\ phase = "commit" /\ Forget
    /\ files' = [files EXCEPT ![Into(mode)] = [@ EXCEPT !.items = items, !.whole = TRUE]]
    /\ phase' = IF mode = "atomic" THEN "swap" ELSE "open"
    /\ UNCHANGED <<directory, cache, mode, before, touched, cut, last,
                   runs, edits, faults>>

\* AtomicFileReplace.replaceItem
ReplaceItem ==
    /\ phase = "swap"
    /\ files' = [target |-> files["staging"], staging |-> None]
    /\ phase' = "open"
    /\ UNCHANGED <<directory, cache, mode, scan, items, before, touched, cut, last,
                   runs, edits, faults>>

\* Snapshot.open of what is now at the target
Open ==
    /\ phase = "open" /\ End("taken")
    /\ UNCHANGED <<directory, cache, files, mode, before, touched, cut,
                   runs, edits, faults>>

\* The root's results were cut short, or anything else throws: ROLLBACK, and an atomic save
\* discards its staging file.
GiveUp ==
    /\ phase # "idle"
    /\ \/ phase = "scan" /\ AllProcessed /\ {} \in cut /\ UNCHANGED faults
       \/ Fault
    /\ files' = IF mode = "atomic" THEN [files EXCEPT !["staging"] = None] ELSE files
    /\ End("failed")
    /\ UNCHANGED <<directory, cache, mode, before, touched, cut, runs, edits>>

\* The process dies: what was not committed is gone, a staging file stays.
Crash ==
    /\ phase # "idle" /\ Fault
    /\ End("failed")
    /\ UNCHANGED <<directory, cache, files, mode, before, touched, cut, runs, edits>>

Next ==
    \/ \E p \in Path, c \in Content, d \in Dates : WriteFile(p, c, d)
    \/ \E p \in Path : Remove(p) \/ MakeDirectory(p)
    \/ \E m \in {"plain", "atomic"} : Start(m)
    \/ \E p \in Path : ScanDirectory(p) \/ Look(p) \/ HashFile(p)
    \/ \E p \in Path : Insert(p) \/ InsertFails(p) \/ Drop(p) \/ Vanished(p) \/ PassOver(p)
    \/ Prune \/ Commit \/ ReplaceItem \/ Open \/ GiveUp \/ Crash

Spec == Init /\ [][Next]_vars

-----------------------------------------------------------------------------
\* Types; what is hashed was looked at, and a command under way has a file it writes to.
TypeOK ==
    /\ tree \in [Path -> Content \cup {Absent, Dir}] /\ WellFormed(tree)
    /\ date \in [Path -> Dates] /\ hidden \subseteq Path
    /\ versions \in [Path -> SUBSET Attributes]
    /\ cache \in [Path -> CacheRow \cup {None}]
    /\ files \in [target: Database \cup {None}, staging: Database \cup {None}]
    /\ before \in Database \cup {None}
    /\ mode \in {"plain", "atomic"} /\ parallel \in BOOLEAN
    /\ phase \in {"idle", "scan", "commit", "swap", "open"}
    /\ stage \in [Path -> {"unlisted", "listed", "hashing", "hashed", "done"}]
    /\ seen \in [Path -> Attributes \cup {None}]
    /\ \A p \in Path : stage[p] = "hashing" => seen[p] # None
    /\ results \in [Path -> FileData \cup {Absent}]
    /\ \A p \in Path : stage[p] = "hashed" => results[p] # Absent
    /\ items \in Tree /\ touched \subseteq Path /\ racing \subseteq Path
    /\ cut \subseteq SUBSET Path
    /\ last \in {"none", "taken", "failed"}
    /\ phase # "idle" => last = "none"
    /\ phase \in {"scan", "commit", "swap"} => files[Into(mode)] # None
    /\ runs \in 0..MaxRuns /\ edits \in 0..MaxEdits /\ faults \in 0..MaxFaults

(* A snapshot is a tree: every row lies in directories that have rows, be  *)
(* it of two directories put into one file, of a directory whose row was   *)
(* refused, of one that changed its kind meanwhile or of results dropped   *)
(* (finalize inserts before it descends; SnapshotWriter.insertItem).       *)
RowsFormTree ==
    \A f \in {"target", "staging"} : files[f] # None => WellFormed(files[f].items)

(* The hash cache never has another file's hash for a file as it is now,   *)
(* even when that file changed while it was hashed, a scan crashed or      *)
(* items went missing: unless the change cannot be told from size and date *)
(* (HashCache.lookup, .store, .prune; the order of FileSystemItem.init).   *)
CacheTrue ==
    \A p \in Path \ hidden :
        (IsFile(tree, p) /\ Hit(cache[p], AttributesOf(p))) => cache[p].hash = tree[p]

\* A path's row is right, or it is a file and its directory's results were cut short.
Shown(t, p) == t[p] = tree[p] \/ (IsFile(tree, p) /\ Parent[p] \in cut /\ t[p] = Absent)

(* A snapshot that was taken, atomically or into a new file, shows every   *)
(* path as it is if it was let alone and could be read since the start,    *)
(* whatever happened to the others; but where an insertion failed in a     *)
(* parallel scan, files of that one directory may be missing, none of them *)
(* wrong, and never at the root (SnapshotEngine.createSnapshot).           *)
SnapshotTrue ==
    (last = "taken" /\ (mode = "atomic" \/ before = None)) =>
        /\ {} \notin cut
        /\ \A p \in Path \ (touched \cup hidden) : Shown(files["target"].items, p)

(* While an atomic save is under way, and after it failed or died, the     *)
(* target is the file it was, until the complete snapshot of this          *)
(* directory alone is there, which may still fail to open                  *)
(* (SnapshotEngine.createSnapshot(atomicallySavingTo:), AtomicFileReplace).*)
OldOrNew ==
    LET new == /\ files["target"] # None /\ files["target"].whole
               /\ files["target"].roots = {Root}
    IN  mode = "atomic" =>
            IF phase = "open" \/ last = "taken" THEN new
            ELSE files["target"] = before \/ (last = "failed" /\ new)
=============================================================================
